---- MODULE Spec2Model ----
(***************************************************************************)
(* Verification model of the DaleVision edge agent                         *)
(* (okubobarros/dalevision-edge-agent).                                    *)
(*                                                                         *)
(* Parts, each with a specification of its own:                            *)
(*   SpecReceipt     events/builder.py, events/receipts.py                 *)
(*   SpecAggregator  vision/aggregations.py (MetricAggregator API)         *)
(*   SpecMainLoop    agent/lifecycle.py run_agent main loop                *)
(*   SpecCheckout    camera/rtsp.py update_metrics, checkout FSM (balcao)  *)
(*   SpecEntrada     camera/rtsp.py update_metrics, line crossing          *)
(*   SpecBalcao      camera/rtsp.py update_metrics, zone counting          *)
(*   SpecSender      agent/lifecycle.py sender and heartbeat loops with    *)
(*                   queue/sqlite_queue.py (SpecSenderFair adds fairness)  *)
(*                                                                         *)
(* Time is counted in tenths of a second (ticks) in the camera parts and   *)
(* in whole seconds in the aggregator part.                                *)
(***************************************************************************)
EXTENDS Integers, Sequences, FiniteSets, TLC

VARIABLES
    \* ---- events/receipts.py, events/builder.py
    envA, envB,          \* two envelopes (dicts)
    ridDone,             \* whether receipt ids have been attached
    \* ---- vision/aggregations.py
    buckets,             \* MetricAggregator._buckets : camera_id -> _Bucket | NoBucket
    closed,              \* return value of the last try_close_bucket call
    aggCall,             \* the last aggregator call: [op, cam, ts, rolledFrom]
    aggPrev,             \* the aggregator call before it
    gwin,                \* per camera: the samples added to its current window (history)
    gprev,               \* per camera: the samples of the window before the last roll-over
    nCalls,              \* number of aggregator calls made
    gsamples,            \* per camera: the samples added to its open bucket (history)
    ruleCall,            \* history: the last rules.evaluate call, its bucket and its result
    \* ---- agent/lifecycle.py main loop
    mlPending,           \* envelopes the main loop has put on pending_queue
    mlCrashed,           \* the main loop has left its while-loop by an exception
    mlRolled,            \* per camera: the windows left by a frame of a later window
    mlClock,             \* per camera: ts of its last frame (seconds)
    mlRoiState,          \* per camera: the worker's _roi_state
    \* ---- camera/rtsp.py, one RtspCameraWorker
    selfRoi,             \* self.roi with its zones, lines and params
    roiState,            \* self._roi_state
    snapshot,            \* the dict returned by the last update_metrics call
    frameTs,             \* ts of the last frame handed to update_metrics (ticks)
    frameDets,           \* the detections of that frame
    framePhase,          \* "none": no frame yet, "input": frame drawn, "done": processed
    ckRun,               \* history: the current run of frames with interaction_now
    lineHist,            \* history: the first observations of track 1
    frameRole,           \* history: the role update_metrics worked with on the last frame
    \* ---- agent/lifecycle.py sender thread, queue/sqlite_queue.py
    pending,             \* pending_queue, the in-memory FIFO of envelopes
    store,               \* rows of the queue table, [id, payload], by id
    nextId,              \* the id AUTOINCREMENT gives the next row
    senderPc,            \* where _sender_loop stands: "get", "check", "flush"; "stopped" with the process
    batch,               \* the rows of _flush_queue's batch not sent yet
    sinceFlush,          \* now - last_flush in seconds, cut off at send_interval
    posted,              \* the envelopes some POST has returned ok for
    nFails,              \* the POSTs that have failed so far
    nPut,                \* the envelopes put on pending_queue so far
    failedSends,         \* history: envelopes whose immediate send failed
    failedFlushes,       \* history: envelopes a flush POST has failed for
    flushedOk,           \* history: envelopes a flush POST has returned ok for
    retry,               \* history: failures of the first row and the wait before its last POST
    \* ---- storage/sqlite_queue.py, ApiClient.flush_outbox
    outbox,              \* rows of the outbox table, by id
    obNextId,            \* the id AUTOINCREMENT gives the next row
    obCall,              \* history: the last call made on the outbox
    obDelay,             \* history: per attempt count, the delay mark_failed was given
    \* ---- transport/api_client.py post_event, called by _send_event
    postCall,            \* history: the last _send_event call: what the requests did, what was returned
    \* ---- dalevision_edge_agent/main.py: main()'s loop
    hbLoop,              \* the loop's local variables, its position and its exit
    \* ---- dalevision_edge_agent/cameras.py: fetch_roi and its cache directory
    roiCache,            \* per camera id: the text of its cache file
    roiCall,             \* history: the last fetch_roi call and what it returned
    \* ---- the threads of run_agent on what they share
    lockSt,              \* the durable store's lock and connection, and each caller's position
    loopSt,              \* stop_event, and the sender's and the heartbeat loop's position
    handoff              \* a camera worker's _last_frame, and the two threads that touch it

aggVars     == <<buckets, closed, aggCall, aggPrev, gwin, gprev, nCalls, gsamples, ruleCall>>
mlVars      == <<mlPending, mlCrashed, mlRolled, mlClock, mlRoiState>>
receiptVars == <<envA, envB, ridDone>>
camVars     == <<selfRoi, roiState, snapshot, frameTs, frameDets, framePhase, ckRun, lineHist,
                 frameRole>>
senderVars  == <<pending, store, nextId, senderPc, batch, sinceFlush, posted, nFails, nPut,
                 failedSends, failedFlushes, flushedOk, retry>>
outboxVars  == <<outbox, obNextId, obCall, obDelay>>
clientVars  == <<postCall, hbLoop, roiCache, roiCall>>
threadVars  == <<lockSt, loopSt, handoff>>
vars        == <<receiptVars, aggVars, mlVars, camVars, senderVars, outboxVars, clientVars, threadVars>>

\* the variables each part leaves alone
notCamVars     == <<receiptVars, aggVars, mlVars, senderVars, outboxVars, clientVars, threadVars>>
notAggVars     == <<receiptVars, camVars, senderVars, outboxVars, clientVars, threadVars>>
notReceiptVars == <<aggVars, mlVars, camVars, senderVars, outboxVars, clientVars, threadVars>>
notSenderVars  == <<receiptVars, aggVars, mlVars, camVars, outboxVars, clientVars, threadVars>>
notOutboxVars  == <<receiptVars, aggVars, mlVars, camVars, senderVars, clientVars, threadVars>>

-----------------------------------------------------------------------------
(* JSON-like values: None, strings and integers, tagged so that values of   *)
(* different Python types can be compared.                                  *)

Null   == [t |-> "null", s |-> "", n |-> 0]
Absent == [t |-> "absent", s |-> "", n |-> 0]   \* marks a key left out of a dict
StrV(x) == [t |-> "str", s |-> x, n |-> 0]
IntV(k) == [t |-> "int", s |-> "", n |-> k]

\* Python truthiness of a value (None, "" and 0 are falsy)
Truthy(v) == ~(v.t = "null" \/ (v.t = "str" /\ v.s = "") \/ (v.t = "int" /\ v.n = 0))

\* dict.get(key) with default None
Get(d, k) == IF k \in DOMAIN d THEN d[k] ELSE Null

\* dict.get(key, default)
GetOr(d, k, dflt) == IF k \in DOMAIN d THEN d[k] ELSE dflt

-----------------------------------------------------------------------------
(* events/builder.py                                                        *)

\* build_envelope(event_name, source, data, meta, event_version); `now` is
\* the value now_iso() would return.  lead_id and org_id are None at every
\* call site.
BuildEnvelope(event_name, source, data, meta, event_version, now) ==
    [ event_id      |-> IF Truthy(Get(data, "event_id")) THEN data["event_id"] ELSE Null,
      event_name    |-> StrV(event_name),
      event_version |-> IntV(event_version),
      ts            |-> IF Truthy(Get(data, "ts")) THEN data["ts"] ELSE now,
      source        |-> source,
      lead_id       |-> Null,
      org_id        |-> Null,
      data          |-> data,
      meta          |-> meta ]

-----------------------------------------------------------------------------
(* events/receipts.py                                                       *)

\* json.dumps of one scalar
JsonValue(v) ==
    IF v.t = "null" THEN "null"
    ELSE IF v.t = "str" THEN "\"" \o v.s \o "\""
    ELSE ToString(v.n)

\* json.dumps(base, sort_keys=True): the keys in sorted order
JsonDumpsBase(base) ==
    "{\"camera_id\": " \o JsonValue(base.camera_id)
      \o ", \"event_name\": " \o JsonValue(base.event_name)
      \o ", \"event_version\": " \o JsonValue(base.event_version)
      \o ", \"store_id\": " \o JsonValue(base.store_id)
      \o ", \"ts\": " \o JsonValue(base.ts) \o "}"

\* hashlib.sha256(raw).hexdigest(), taken as collision free
Sha256Hex(raw) == "sha256:" \o raw

\* A hash of the whole payload instead of the identity tuple.
ComputeReceiptIdWholePayload(payload) ==
    Sha256Hex(JsonDumpsBase(
        [ event_name    |-> Get(payload, "event_name"),
          store_id      |-> Get(GetOr(payload, "data", <<>>), "store_id"),
          camera_id     |-> Get(GetOr(payload, "data", <<>>), "camera_id"),
          ts            |-> Get(payload, "ts"),
          event_version |-> GetOr(payload, "event_version", IntV(1)) ])
        \o JsonValue(Get(GetOr(payload, "data", <<>>), "extra"))
        \o JsonValue(Get(payload, "source")))

\* compute_receipt_id(payload)
ComputeReceiptId(payload) ==
    LET base == [ event_name    |-> Get(payload, "event_name"),
                  store_id      |-> Get(GetOr(payload, "data", <<>>), "store_id"),
                  camera_id     |-> Get(GetOr(payload, "data", <<>>), "camera_id"),
                  ts            |-> Get(payload, "ts"),
                  event_version |-> GetOr(payload, "event_version", IntV(1)) ]
    IN  Sha256Hex(JsonDumpsBase(base))

\* env["receipt_id"] = compute_receipt_id(env)
AttachReceipt(env) ==
    [k \in DOMAIN env \cup {"receipt_id"} |->
        IF k = "receipt_id" THEN StrV(ComputeReceiptId(env)) ELSE env[k]]

\* The inputs of build_envelope tried: a data dict is given by the values of
\* its keys, Absent leaving the key out.
DataOf(store_id, camera_id, ts, extra) ==
    LET given == [store_id |-> store_id, camera_id |-> camera_id, ts |-> ts, extra |-> extra]
    IN  [k \in {x \in DOMAIN given : given[x] # Absent} |-> given[k]]

EventNames   == {"edge_metric_bucket", "alert"}
Sources      == {StrV("edge"), StrV("edge-agent:a1")}
Versions     == {1, 2}
StoreIds     == {Absent, StrV("s1")}
CameraIds    == {Absent, Null, StrV("c1")}
DataTs       == {Absent, StrV("2026-01-01T00:00:00")}
NowIso       == StrV("2026-01-01T00:01:00")
Extras       == {Absent, StrV("x")}

Envelopes ==
    { BuildEnvelope(en, src, DataOf(st, cam, dts, ex), <<>>, ver, NowIso) :
        en \in EventNames, src \in Sources, ver \in Versions,
        st \in StoreIds, cam \in CameraIds, dts \in DataTs, ex \in Extras }

ReceiptInit ==
    /\ envA \in Envelopes
    /\ envB \in Envelopes
    /\ ridDone = FALSE

ReceiptIdle ==
    /\ envA = <<>>
    /\ envB = <<>>
    /\ ridDone = TRUE

\* lifecycle.py: env["receipt_id"] = compute_receipt_id(env), for both envelopes
AttachReceiptsStep ==
    /\ ridDone = FALSE
    /\ envA' = AttachReceipt(envA)
    /\ envB' = AttachReceipt(envB)
    /\ ridDone' = TRUE
    /\ UNCHANGED notReceiptVars

-----------------------------------------------------------------------------
(* vision/aggregations.py                                                   *)

BoolV(b) == [t |-> "bool", s |-> "", n |-> IF b THEN 1 ELSE 0]

\* isinstance(v, bool) -> int(v); isinstance(v, (int, float))
IsNumeric(v) == v.t \in {"int", "bool"}

\* a float quotient s / denom, kept exact
Ratio(num, den) == [num |-> num, den |-> den]

\* MetricAggregator(bucket_seconds=60)
BucketSeconds == 60

\* _buckets.get(camera_id) is None
NoBucket == [ts_bucket |-> -1, count |-> -1, sums |-> <<>>, maxs |-> <<>>]

\* try_close_bucket returned None
NoResult == [ts_bucket |-> -1, count |-> -1, metrics |-> <<>>]

\* _Bucket(ts_bucket=bstart)
NewBucket(bstart) == [ts_bucket |-> bstart, count |-> 0, sums |-> <<>>, maxs |-> <<>>]

\* MetricAggregator._bucket_start
BucketStart(ts) == (ts \div BucketSeconds) * BucketSeconds

Max2(a, b) == IF a >= b THEN a ELSE b

\* an add_sample that sums and maximises integers only, not booleans
AccumulateIntsOnly(b, metrics) ==
    LET nk == {k \in DOMAIN metrics : metrics[k].t = "int"}
    IN  [ ts_bucket |-> b.ts_bucket,
          count     |-> b.count + 1,
          sums      |-> [k \in DOMAIN b.sums \cup nk |->
                            (IF k \in DOMAIN b.sums THEN b.sums[k] ELSE 0)
                          + (IF k \in nk THEN metrics[k].n ELSE 0)],
          maxs      |-> [k \in DOMAIN b.maxs \cup nk |->
                            IF k \notin nk THEN b.maxs[k]
                            ELSE IF k \notin DOMAIN b.maxs THEN metrics[k].n
                            ELSE Max2(b.maxs[k], metrics[k].n)] ]

\* the loop over metrics.items() of add_sample, on bucket b
Accumulate(b, metrics) ==
    LET nk == {k \in DOMAIN metrics : IsNumeric(metrics[k])}
    IN  [ ts_bucket |-> b.ts_bucket,
          count     |-> b.count + 1,
          sums      |-> [k \in DOMAIN b.sums \cup nk |->
                            (IF k \in DOMAIN b.sums THEN b.sums[k] ELSE 0)
                          + (IF k \in nk THEN metrics[k].n ELSE 0)],
          maxs      |-> [k \in DOMAIN b.maxs \cup nk |->
                            IF k \notin nk THEN b.maxs[k]
                            ELSE IF k \notin DOMAIN b.maxs THEN metrics[k].n
                            ELSE Max2(b.maxs[k], metrics[k].n)] ]

\* MetricAggregator.add_sample: the new value of _buckets
AddSample(bs, camera_id, ts, metrics) ==
    LET bstart == BucketStart(ts)
        b0     == bs[camera_id]
        b      == IF b0 = NoBucket \/ b0.ts_bucket # bstart THEN NewBucket(bstart) ELSE b0
    IN  [bs EXCEPT ![camera_id] = Accumulate(b, metrics)]

\* add_sample opens a new bucket: there is none, or it is of another window
StartsBucket(bs, camera_id, ts) ==
    bs[camera_id] = NoBucket \/ bs[camera_id].ts_bucket # BucketStart(ts)

\* the dict try_close_bucket returns for the closed bucket
ClosedDict(cb) ==
    LET denom == Max2(1, cb.count)
        keys  == {k \o "_avg" : k \in DOMAIN cb.sums} \cup {k \o "_max" : k \in DOMAIN cb.maxs}
    IN  [ ts_bucket |-> cb.ts_bucket,
          count     |-> cb.count,
          metrics   |-> [o \in keys |->
                            IF \E k \in DOMAIN cb.sums : o = k \o "_avg"
                            THEN Ratio(cb.sums[CHOOSE k \in DOMAIN cb.sums : o = k \o "_avg"], denom)
                            ELSE Ratio(cb.maxs[CHOOSE k \in DOMAIN cb.maxs : o = k \o "_max"], 1)] ]

\* MetricAggregator.try_close_bucket: [buckets |-> new _buckets, result |-> returned value]
TryCloseBucket(bs, camera_id, ts) ==
    LET b             == bs[camera_id]
        current_start == BucketStart(ts)
    IN  IF b = NoBucket THEN [buckets |-> bs, result |-> NoResult]
        ELSE IF current_start = b.ts_bucket THEN [buckets |-> bs, result |-> NoResult]
        ELSE [ buckets |-> [bs EXCEPT ![camera_id] = NewBucket(current_start)],
               result  |-> ClosedDict(b) ]

-----------------------------------------------------------------------------
(* camera/rtsp.py: geometry.  A detection box holds integer pixels; the     *)
(* centre of a box may lie on a half pixel, so points handed to the         *)
(* polygon test carry doubled coordinates.                                  *)

\* _line_side(p1, p2, p)
LineSide(p1, p2, p) ==
    (p2[1] - p1[1]) * (p[2] - p1[2]) - (p2[2] - p1[2]) * (p[1] - p1[1])

\* cv2.pointPolygonTest(contour, p, False) >= 0 for the convex polygons of the
\* configurations below: p (doubled coordinates) is inside or on the border
\* iff it is on the same side of every edge.
EdgeCross(poly, i, px2, py2) ==
    LET a == poly[i]
        b == poly[(i % Len(poly)) + 1]
    IN  (2 * b[1] - 2 * a[1]) * (py2 - 2 * a[2]) - (2 * b[2] - 2 * a[2]) * (px2 - 2 * a[1])

\* _point_in_polygon(px, py, polygon), px2 = 2*px, py2 = 2*py
PointInPolygon(px2, py2, polygon) ==
    IF Len(polygon) < 3 THEN FALSE
    ELSE \/ \A i \in 1..Len(polygon) : EdgeCross(polygon, i, px2, py2) >= 0
         \/ \A i \in 1..Len(polygon) : EdgeCross(polygon, i, px2, py2) <= 0

-----------------------------------------------------------------------------
(* camera/rtsp.py: RtspCameraWorker.__init__                                *)

\* "interaction_start_ts": None
NoStart == -1
\* "last_checkout_ts": -1e9, and the default of tll.get(key, -1e9).  The source
\* counts it in seconds; the same number of ticks is kept here, TLC's integers
\* having 32 bits: it lies further in the past than any window of the model.
LongAgo == -1000000000
\* defaults of params.get(...), in ticks of 0.1 s
DefaultDwell    == 20
DefaultFailsafe == 40
DefaultCooldown == 40
\* a detection without track_id
NoTrack == -1

\* self._roi_state after construction
RoiStateInit ==
    [ in_checkout_cycle    |-> FALSE,
      interaction_start_ts |-> NoStart,
      last_checkout_ts     |-> LongAgo,
      track_line_side_state |-> <<>>,
      track_line_last_event |-> <<>>,
      debug_last_counts    |-> [clients_at_pay |-> 0, staff_at_cashier |-> 0] ]

\* self._lines: only the lines given as a list of two points are kept
LinesOf(roi) ==
    [ln \in {l \in DOMAIN roi.lines : Len(roi.lines[l]) = 2} |-> roi.lines[ln]]

\* the params read in __init__
ExcludePayFromQueue(roi) == GetOr(roi.params, "exclude_pay_from_queue", TRUE)
CheckoutDwell(roi)       == GetOr(roi.params, "checkout_dwell_seconds", DefaultDwell)
CheckoutFailsafe(roi)    == GetOr(roi.params, "checkout_failsafe_seconds", DefaultFailsafe)
LineCooldown(roi)        == GetOr(roi.params, "line_cooldown_seconds", DefaultCooldown)

\* the ROI of a camera whose file is missing: self.roi = {}
EmptyRoi == [role |-> "", zones |-> <<>>, lines |-> <<>>, params |-> <<>>]

\* a role inference that looks at the zone keys before the explicit role
InferRoleKeysFirst(roi) ==
    IF    "ponto_pagamento" \in DOMAIN roi.zones
       \/ "area_atendimento_fila" \in DOMAIN roi.zones
       \/ "zona_funcionario_caixa" \in DOMAIN roi.zones THEN "balcao"
    ELSE IF "area_consumo" \in DOMAIN roi.zones THEN "salao"
    ELSE IF roi.role \in {"balcao", "salao", "entrada"} THEN roi.role
    ELSE IF DOMAIN LinesOf(roi) # {} THEN "entrada"
    ELSE "unknown"

\* RtspCameraWorker._infer_role
InferRole(roi) ==
    IF roi.role \in {"balcao", "salao", "entrada"} THEN roi.role
    ELSE IF    "ponto_pagamento" \in DOMAIN roi.zones
            \/ "area_atendimento_fila" \in DOMAIN roi.zones
            \/ "zona_funcionario_caixa" \in DOMAIN roi.zones THEN "balcao"
    ELSE IF "area_consumo" \in DOMAIN roi.zones THEN "salao"
    ELSE IF DOMAIN LinesOf(roi) # {} THEN "entrada"
    ELSE "unknown"

-----------------------------------------------------------------------------
(* camera/rtsp.py: RtspCameraWorker.update_metrics                          *)
(* A detection is [xyxy |-> <<x1, y1, x2, y2>>, track_id |-> id]; a missing *)
(* box is <<>> and a missing track id is NoTrack.  Pixels are >= 0.         *)

\* `if not xyxy or len(xyxy) != 4: continue`
UsableBox(det) == Len(det.xyxy) = 4

\* balcao: whether a detection standing in the queue zone is counted in queue_count
QueueCountsAlways(exclude, in_pay, in_queue) == in_queue

QueueCounts(exclude, in_pay, in_queue) ==
    in_queue /\ ~(exclude /\ in_pay)

\* the balcao branch for one detection
BalcaoDet(roi, acc, det) ==
    LET cx2   == det.xyxy[1] + det.xyxy[3]
        cy2   == det.xyxy[2] + det.xyxy[4]
        fy2   == 2 * det.xyxy[4]
        z     == roi.zones
        in_pay   == "ponto_pagamento" \in DOMAIN z
                    /\ PointInPolygon(cx2, cy2, z["ponto_pagamento"])
        in_staff == "zona_funcionario_caixa" \in DOMAIN z
                    /\ PointInPolygon(cx2, cy2, z["zona_funcionario_caixa"])
        in_queue == "area_atendimento_fila" \in DOMAIN z
                    /\ PointInPolygon(cx2, fy2, z["area_atendimento_fila"])
        B(c)  == IF c THEN 1 ELSE 0
    IN  [acc EXCEPT !.clients_at_pay   = @ + B(in_pay),
                    !.pay_count        = @ + B(in_pay),
                    !.staff_at_cashier = @ + B(in_staff),
                    !.staff_count      = @ + B(in_staff),
                    !.queue_count      = @ + B(QueueCounts(ExcludePayFromQueue(roi), in_pay, in_queue))]

\* the salao branch for one detection
SalaoDet(roi, acc, det) ==
    LET cx2 == det.xyxy[1] + det.xyxy[3]
        fy2 == 2 * det.xyxy[4]
    IN  IF "area_consumo" \in DOMAIN roi.zones
           /\ PointInPolygon(cx2, fy2, roi.zones["area_consumo"])
        THEN [acc EXCEPT !.consumo_count = @ + 1]
        ELSE acc

\* One cooldown for both kinds of event of a line.
LineEventSharedCooldown(has_prev, prev, side, last_entry, last_exit, ts, cooldown) ==
    LET last == IF last_entry >= last_exit THEN last_entry ELSE last_exit IN
    IF has_prev /\ prev < 0 /\ side > 0
    THEN IF (ts - last) >= cooldown THEN "entry" ELSE "none"
    ELSE IF has_prev /\ prev > 0 /\ side < 0
    THEN IF (ts - last) >= cooldown THEN "exit" ELSE "none"
    ELSE "none"

\* Entry and exit exchanged.
LineEventSwapped(has_prev, prev, side, last_entry, last_exit, ts, cooldown) ==
    IF has_prev /\ prev < 0 /\ side > 0
    THEN IF (ts - last_exit) >= cooldown THEN "exit" ELSE "none"
    ELSE IF has_prev /\ prev > 0 /\ side < 0
    THEN IF (ts - last_entry) >= cooldown THEN "entry" ELSE "none"
    ELSE "none"

\* A track on the line counts as being on the negative side.
LineEventFromZero(has_prev, prev, side, last_entry, last_exit, ts, cooldown) ==
    IF has_prev /\ prev <= 0 /\ side > 0
    THEN IF (ts - last_entry) >= cooldown THEN "entry" ELSE "none"
    ELSE IF has_prev /\ prev > 0 /\ side < 0
    THEN IF (ts - last_exit) >= cooldown THEN "exit" ELSE "none"
    ELSE "none"

\* Every sign flip fires, whatever fired before.
LineEventNoCooldown(has_prev, prev, side, last_entry, last_exit, ts, cooldown) ==
    IF has_prev /\ prev < 0 /\ side > 0 THEN "entry"
    ELSE IF has_prev /\ prev > 0 /\ side < 0 THEN "exit"
    ELSE "none"

\* entrada, one track and one line: the event fired in this frame, given the
\* side stored for the track (if any) and the times of its last fired events
LineEvent(has_prev, prev, side, last_entry, last_exit, ts, cooldown) ==
    IF has_prev /\ prev < 0 /\ side > 0
    THEN IF (ts - last_entry) >= cooldown THEN "entry" ELSE "none"
    ELSE IF has_prev /\ prev > 0 /\ side < 0
    THEN IF (ts - last_exit) >= cooldown THEN "exit" ELSE "none"
    ELSE "none"

\* the entrada branch for one detection
EntradaDet(roi, acc, det, ts) ==
    LET lines == LinesOf(roi)
        tid   == det.track_id
        pt    == << (det.xyxy[1] + det.xyxy[3]) \div 2, det.xyxy[4] >>
        tls   == acc.tls
        tll   == acc.tll
        sides == IF tid \in DOMAIN tls THEN tls[tid] ELSE <<>>
        lasts == IF tid \in DOMAIN tll THEN tll[tid] ELSE <<>>
        side(ln)  == LineSide(lines[ln][1], lines[ln][2], pt)
        event(ln) == LineEvent(ln \in DOMAIN sides,
                               IF ln \in DOMAIN sides THEN sides[ln] ELSE 0,
                               side(ln),
                               GetOr(lasts, <<"entry", ln>>, LongAgo),
                               GetOr(lasts, <<"exit", ln>>, LongAgo),
                               ts, LineCooldown(roi))
        fired  == {<<event(ln), ln>> : ln \in {l \in DOMAIN lines : event(l) # "none"}}
        sides2 == [ln \in DOMAIN sides \cup DOMAIN lines |->
                      IF ln \in DOMAIN lines THEN side(ln) ELSE sides[ln]]
        lasts2 == [k \in DOMAIN lasts \cup fired |-> IF k \in fired THEN ts ELSE lasts[k]]
    IN  IF tid = NoTrack \/ DOMAIN lines = {} THEN acc
        ELSE [acc EXCEPT
                !.entries_inc = @ + Cardinality({k \in fired : k[1] = "entry"}),
                !.exits_inc   = @ + Cardinality({k \in fired : k[1] = "exit"}),
                !.tls = [t \in DOMAIN tls \cup {tid} |-> IF t = tid THEN sides2 ELSE tls[t]],
                !.tll = [t \in DOMAIN tll \cup {tid} |-> IF t = tid THEN lasts2 ELSE tll[t]]]

\* a loop body that counts a detection without a usable box as a person in the queue
OneDetectionQueuesBoxless(roi, role, acc, det, ts) ==
    IF ~UsableBox(det) THEN [acc EXCEPT !.queue_count = @ + 1]
    ELSE IF role = "balcao" THEN BalcaoDet(roi, acc, det)
    ELSE IF role = "salao" THEN SalaoDet(roi, acc, det)
    ELSE IF role = "entrada" THEN EntradaDet(roi, acc, det, ts)
    ELSE acc

\* the body of `for det in detections` for one detection
OneDetection(roi, role, acc, det, ts) ==
    IF ~UsableBox(det) THEN acc
    ELSE IF role = "balcao" THEN BalcaoDet(roi, acc, det)
    ELSE IF role = "salao" THEN SalaoDet(roi, acc, det)
    ELSE IF role = "entrada" THEN EntradaDet(roi, acc, det, ts)
    ELSE acc

RECURSIVE DetectionLoop(_, _, _, _, _, _)
\* `for det in detections`, from detection i on
DetectionLoop(roi, role, acc, dets, i, ts) ==
    IF i > Len(dets) THEN acc
    ELSE DetectionLoop(roi, role, OneDetection(roi, role, acc, dets[i], ts), dets, i + 1, ts)

\* A machine that never enters the cycle state.
CheckoutFsmNoCycle(in_cycle, interaction_start, last_checkout_ts, interaction_now, ts, dwell, failsafe) ==
    IF failsafe > 0 /\ (ts - last_checkout_ts) < failsafe
    THEN [in_cycle |-> in_cycle, interaction_start |-> NoStart,
          last_checkout_ts |-> last_checkout_ts, inc |-> 0]
    ELSE IF interaction_now /\ interaction_start = NoStart
    THEN [in_cycle |-> FALSE, interaction_start |-> ts,
          last_checkout_ts |-> last_checkout_ts, inc |-> 0]
    ELSE IF interaction_now /\ (ts - interaction_start) >= dwell
    THEN [in_cycle |-> FALSE, interaction_start |-> NoStart,
          last_checkout_ts |-> ts, inc |-> 1]
    ELSE [in_cycle |-> FALSE,
          interaction_start |-> IF interaction_now THEN interaction_start ELSE NoStart,
          last_checkout_ts |-> last_checkout_ts, inc |-> 0]

\* A machine without failsafe window.
CheckoutFsmNoFailsafe(in_cycle, interaction_start, last_checkout_ts, interaction_now, ts, dwell, failsafe) ==
    IF FALSE
    THEN \* failsafe (airbag)
         [in_cycle |-> in_cycle, interaction_start |-> NoStart,
          last_checkout_ts |-> last_checkout_ts, inc |-> 0]
    ELSE IF ~in_cycle
    THEN IF interaction_now
         THEN IF interaction_start = NoStart
              THEN [in_cycle |-> in_cycle, interaction_start |-> ts,
                    last_checkout_ts |-> last_checkout_ts, inc |-> 0]
              ELSE IF (ts - interaction_start) >= dwell
              THEN [in_cycle |-> TRUE, interaction_start |-> NoStart,
                    last_checkout_ts |-> ts, inc |-> 1]
              ELSE [in_cycle |-> in_cycle, interaction_start |-> interaction_start,
                    last_checkout_ts |-> last_checkout_ts, inc |-> 0]
         ELSE [in_cycle |-> in_cycle, interaction_start |-> NoStart,
               last_checkout_ts |-> last_checkout_ts, inc |-> 0]
    ELSE IF ~interaction_now
    THEN \* rearm when the interaction ends
         [in_cycle |-> FALSE, interaction_start |-> NoStart,
          last_checkout_ts |-> last_checkout_ts, inc |-> 0]
    ELSE [in_cycle |-> in_cycle, interaction_start |-> interaction_start,
          last_checkout_ts |-> last_checkout_ts, inc |-> 0]

\* A machine that keeps its accumulation start over a frame without interaction.
CheckoutFsmKeepsStart(in_cycle, interaction_start, last_checkout_ts, interaction_now, ts, dwell, failsafe) ==
    IF failsafe > 0 /\ (ts - last_checkout_ts) < failsafe
    THEN \* failsafe (airbag)
         [in_cycle |-> in_cycle, interaction_start |-> NoStart,
          last_checkout_ts |-> last_checkout_ts, inc |-> 0]
    ELSE IF ~in_cycle
    THEN IF interaction_now
         THEN IF interaction_start = NoStart
              THEN [in_cycle |-> in_cycle, interaction_start |-> ts,
                    last_checkout_ts |-> last_checkout_ts, inc |-> 0]
              ELSE IF (ts - interaction_start) >= dwell
              THEN [in_cycle |-> TRUE, interaction_start |-> NoStart,
                    last_checkout_ts |-> ts, inc |-> 1]
              ELSE [in_cycle |-> in_cycle, interaction_start |-> interaction_start,
                    last_checkout_ts |-> last_checkout_ts, inc |-> 0]
         ELSE [in_cycle |-> in_cycle, interaction_start |-> interaction_start,
               last_checkout_ts |-> last_checkout_ts, inc |-> 0]
    ELSE IF ~interaction_now
    THEN \* rearm when the interaction ends
         [in_cycle |-> FALSE, interaction_start |-> NoStart,
          last_checkout_ts |-> last_checkout_ts, inc |-> 0]
    ELSE [in_cycle |-> in_cycle, interaction_start |-> interaction_start,
          last_checkout_ts |-> last_checkout_ts, inc |-> 0]

\* the checkout FSM of update_metrics (balcao): the new in_checkout_cycle,
\* interaction_start_ts, last_checkout_ts and checkout_events_inc
CheckoutFsm(in_cycle, interaction_start, last_checkout_ts, interaction_now, ts, dwell, failsafe) ==
    IF failsafe > 0 /\ (ts - last_checkout_ts) < failsafe
    THEN \* failsafe (airbag)
         [in_cycle |-> in_cycle, interaction_start |-> NoStart,
          last_checkout_ts |-> last_checkout_ts, inc |-> 0]
    ELSE IF ~in_cycle
    THEN IF interaction_now
         THEN IF interaction_start = NoStart
              THEN [in_cycle |-> in_cycle, interaction_start |-> ts,
                    last_checkout_ts |-> last_checkout_ts, inc |-> 0]
              ELSE IF (ts - interaction_start) >= dwell
              THEN [in_cycle |-> TRUE, interaction_start |-> NoStart,
                    last_checkout_ts |-> ts, inc |-> 1]
              ELSE [in_cycle |-> in_cycle, interaction_start |-> interaction_start,
                    last_checkout_ts |-> last_checkout_ts, inc |-> 0]
         ELSE [in_cycle |-> in_cycle, interaction_start |-> NoStart,
               last_checkout_ts |-> last_checkout_ts, inc |-> 0]
    ELSE IF ~interaction_now
    THEN \* rearm when the interaction ends
         [in_cycle |-> FALSE, interaction_start |-> NoStart,
          last_checkout_ts |-> last_checkout_ts, inc |-> 0]
    ELSE [in_cycle |-> in_cycle, interaction_start |-> interaction_start,
          last_checkout_ts |-> last_checkout_ts, inc |-> 0]

\* the counters of update_metrics before the detection loop
AccInit(st) ==
    [ queue_count |-> 0, pay_count |-> 0, staff_count |-> 0, consumo_count |-> 0,
      entries_inc |-> 0, exits_inc |-> 0, clients_at_pay |-> 0, staff_at_cashier |-> 0,
      tls |-> st.track_line_side_state, tll |-> st.track_line_last_event ]

\* update_metrics from the end of the detection loop on: the checkout FSM and
\* the returned dict, acc holding the counters of the loop
AfterDetections(roi, st, dets, ts, role, acc) ==
    LET interaction_now == acc.clients_at_pay >= 1 /\ acc.staff_at_cashier >= 1
        fsm  == CheckoutFsm(st.in_checkout_cycle, st.interaction_start_ts,
                            st.last_checkout_ts, interaction_now, ts,
                            CheckoutDwell(roi), CheckoutFailsafe(roi))
        dbg  == IF role = "balcao"
                THEN [clients_at_pay |-> acc.clients_at_pay,
                      staff_at_cashier |-> acc.staff_at_cashier]
                ELSE st.debug_last_counts
        st2  == [ in_checkout_cycle    |-> IF role = "balcao" THEN fsm.in_cycle
                                           ELSE st.in_checkout_cycle,
                  interaction_start_ts |-> IF role = "balcao" THEN fsm.interaction_start
                                           ELSE st.interaction_start_ts,
                  last_checkout_ts     |-> IF role = "balcao" THEN fsm.last_checkout_ts
                                           ELSE st.last_checkout_ts,
                  track_line_side_state |-> acc.tls,
                  track_line_last_event |-> acc.tll,
                  debug_last_counts    |-> dbg ]
    IN  [ state   |-> st2,
          metrics |-> [ people_count    |-> Len(dets),
                        queue_count     |-> acc.queue_count,
                        pay_count       |-> acc.pay_count,
                        staff_count     |-> acc.staff_count,
                        checkout_events |-> IF role = "balcao" THEN fsm.inc ELSE 0,
                        consumo_count   |-> acc.consumo_count,
                        entries         |-> acc.entries_inc,
                        exits           |-> acc.exits_inc,
                        debug_clients_at_pay   |-> dbg.clients_at_pay,
                        debug_staff_at_cashier |-> dbg.staff_at_cashier ] ]

\* RtspCameraWorker.update_metrics(detections, ts) on ROI state st:
\* [state |-> the new _roi_state, metrics |-> the returned dict]
UpdateMetrics(roi, st, dets, ts) ==
    LET role == InferRole(roi)
    IN  CHOOSE out \in { AfterDetections(roi, st, dets, ts, role, acc) :
                           acc \in {DetectionLoop(roi, role, AccInit(st), dets, 1, ts)} } : TRUE

-----------------------------------------------------------------------------
(* One camera worker fed with frames                                        *)

Rect(x0, y0, x1, y1) == << <<x0, y0>>, <<x1, y0>>, <<x1, y1>>, <<x0, y1>> >>
Box(x1, y1, x2, y2, tid) == [xyxy |-> <<x1, y1, x2, y2>>, track_id |-> tid]

NoMetrics ==
    [ people_count |-> 0, queue_count |-> 0, pay_count |-> 0, staff_count |-> 0,
      checkout_events |-> 0, consumo_count |-> 0, entries |-> 0, exits |-> 0,
      debug_clients_at_pay |-> 0, debug_staff_at_cashier |-> 0 ]

NoRun == [inRun |-> FALSE, ev |-> 0, start |-> NoStart, idle |-> FALSE, uniform |-> FALSE,
          lastEv |-> LongAgo, prevEv |-> LongAgo]

NoPair == [valid |-> FALSE, dt |-> 0, entryRec |-> FALSE, exitRec |-> FALSE, exitRecent |-> FALSE]

NoHist ==
    [ sg |-> 2, viaLine |-> "", ts |-> 0, entryTr |-> LongAgo, entryRec |-> FALSE, lastWasEntryTr |-> FALSE,
      exitRecTs |-> LongAgo, entryRecTs |-> LongAgo, cand |-> "none", pair |-> NoPair,
      k |-> 0, eSum |-> 0, xSum |-> 0, eAt |-> 0, xAt |-> 0 ]

CamIdle ==
    /\ selfRoi = EmptyRoi
    /\ roiState = RoiStateInit
    /\ snapshot = NoMetrics
    /\ frameTs = 0
    /\ frameDets = <<>>
    /\ framePhase = "none"
    /\ ckRun = NoRun
    /\ lineHist = NoHist
    /\ frameRole = ""

\* ---- a counter camera: payment zone, queue zone below it, cashier zone beside it
BalcaoRoi(exclude) ==
    [ role   |-> "",
      zones  |-> [ ponto_pagamento        |-> Rect(0, 0, 10, 10),
                   area_atendimento_fila  |-> Rect(0, 8, 10, 20),
                   zona_funcionario_caixa |-> Rect(20, 0, 30, 10) ],
      lines  |-> <<>>,
      params |-> [exclude_pay_from_queue |-> exclude] ]

DetPayOnly   == Box(2, 2, 4, 6, NoTrack)     \* centre (3,4) in payment, foot (3,6) outside queue
DetPayQueue  == Box(2, 6, 4, 12, NoTrack)    \* centre (3,9) in payment, foot (3,12) in queue
DetQueueOnly == Box(2, 12, 5, 18, NoTrack)   \* centre (3.5,15), foot (3.5,18) in queue
DetStaff     == Box(22, 2, 24, 6, NoTrack)   \* centre (23,4) in cashier zone

SeqsUpTo(S, n) == UNION {[1..k -> S] : k \in 0..n}

\* the most detections in one frame of the counter camera
MaxDets == 6

BalcaoDets == {DetPayOnly, DetPayQueue, DetQueueOnly, DetStaff}

\* A counter camera, with either value of exclude_pay_from_queue, and one
\* frame of detections about to be classified.
BalcaoInit ==
    /\ selfRoi \in {BalcaoRoi(TRUE), BalcaoRoi(FALSE)}
    /\ roiState = RoiStateInit
    /\ snapshot = NoMetrics
    /\ frameTs = 0
    /\ frameDets \in SeqsUpTo(BalcaoDets, MaxDets)
    /\ framePhase = "input"
    /\ ckRun = NoRun
    /\ lineHist = NoHist
    /\ frameRole = ""

\* metrics = w.update_metrics(dets, f.ts) on the frame drawn
BalcaoFrame ==
    /\ framePhase = "input"
    /\ \E r \in {UpdateMetrics(selfRoi, roiState, frameDets, frameTs)} :
           /\ roiState' = r.state
           /\ snapshot' = r.metrics
    /\ framePhase' = "done"
    /\ frameRole' = InferRole(selfRoi)
    /\ UNCHANGED <<selfRoi, frameTs, frameDets, ckRun, lineHist>>
    /\ UNCHANGED notCamVars

\* ---- the counter camera fed frame after frame (checkout FSM)
DetClient == DetPayOnly

CheckoutFrames == {<<>>, <<DetClient>>, <<DetStaff>>, <<DetClient, DetStaff>>}

\* the time between two frames, in ticks; 0.1 s is one tick
CheckoutGaps == {0, 1, 40}

\* the last frame time tried
MaxTsCheckout == 85

CheckoutInit ==
    /\ selfRoi = BalcaoRoi(TRUE)
    /\ roiState = RoiStateInit
    /\ snapshot = NoMetrics
    /\ frameTs = 0
    /\ frameDets = <<>>
    /\ framePhase = "none"
    /\ ckRun = NoRun
    /\ lineHist = NoHist
    /\ frameRole = ""

\* the counter camera with short times, in ticks: the dwell and the failsafe
\* window of the ROI file
TimedRoi(dwell, failsafe) ==
    [BalcaoRoi(TRUE) EXCEPT !.params = [checkout_dwell_seconds    |-> dwell,
                                        checkout_failsafe_seconds |-> failsafe]]

\* a window longer than the dwell, one shorter, and no window
TimedRois == {TimedRoi(2, 5), TimedRoi(5, 2), TimedRoi(2, 0)}

\* ticks between two frames of it
TimedGaps == {0, 1, 2, 5}

\* the last frame time tried with it
MaxTsTimed == 12

TimedInit ==
    /\ selfRoi \in TimedRois
    /\ roiState = RoiStateInit
    /\ snapshot = NoMetrics
    /\ frameTs = 0
    /\ frameDets = <<>>
    /\ framePhase = "none"
    /\ ckRun = NoRun
    /\ lineHist = NoHist
    /\ frameRole = ""

\* metrics = w.update_metrics(dets, f.ts) on the next frame.  ckRun follows the
\* run of consecutive frames on which a client is in the payment zone and a
\* staff member in the cashier zone: the events reported in it, the time of
\* its first frame, whether the machine was idle before that frame, and
\* whether its frames are 0.1 s apart; beside the run, the times of the last
\* two frames that reported a checkout.
CheckoutFrameFrom(gaps, maxTs) ==
    \E dets \in CheckoutFrames, gap \in gaps :
      \E r \in {UpdateMetrics(selfRoi, roiState, dets, frameTs + gap)} :
        LET t   == frameTs + gap
            now == r.metrics.pay_count >= 1 /\ r.metrics.staff_count >= 1
        IN  /\ t <= maxTs
            /\ roiState' = r.state
            /\ snapshot' = r.metrics
            /\ frameTs' = t
            /\ frameDets' = dets
            /\ framePhase' = "done"
            /\ ckRun' = LET lastEv == IF r.metrics.checkout_events = 1 THEN t ELSE ckRun.lastEv
                            prevEv == IF r.metrics.checkout_events = 1 THEN ckRun.lastEv
                                      ELSE ckRun.prevEv
                        IN  IF ~now THEN [NoRun EXCEPT !.lastEv = lastEv, !.prevEv = prevEv]
                            ELSE IF ~ckRun.inRun
                            THEN [inRun |-> TRUE, ev |-> r.metrics.checkout_events, start |-> t,
                                  idle |-> ~roiState.in_checkout_cycle, uniform |-> TRUE,
                                  lastEv |-> lastEv, prevEv |-> prevEv]
                            ELSE [ckRun EXCEPT !.ev = @ + r.metrics.checkout_events,
                                               !.uniform = @ /\ gap = 1,
                                               !.lastEv = lastEv, !.prevEv = prevEv]
            /\ frameRole' = InferRole(selfRoi)
            /\ UNCHANGED <<selfRoi, lineHist>>
            /\ UNCHANGED notCamVars

CheckoutFrame == CheckoutFrameFrom(CheckoutGaps, MaxTsCheckout)

\* the same call on the camera with short times
TimedFrame == CheckoutFrameFrom(TimedGaps, MaxTsTimed)

\* ---- an entrance camera with one line, crossed downwards to enter
EntradaRoi ==
    [ role   |-> "",
      zones  |-> <<>>,
      lines  |-> [linha_entrada_saida |-> << <<0, 5>>, <<10, 5>> >>],
      params |-> <<>> ]

\* foot positions above the line, on it and below it
FootYs == {3, 5, 7}

\* A frame of the entrance camera: track 1 on either side of the line, on it
\* or not seen, and possibly a detection without track id.
EntradaFrames ==
    { a \o c : a \in {<<>>} \cup {<<Box(2, 0, 5, y, 1)>> : y \in FootYs},
               c \in {<<>>, <<Box(2, 0, 4, 7, NoTrack)>>} }

\* ticks between two frames
EntradaGaps == {10, 40}

\* the last frame time tried
MaxTsEntrada == 170

Sign(x) == IF x > 0 THEN 1 ELSE IF x < 0 THEN -1 ELSE 0

\* the sides of a track that enters and leaves again
InOutPattern == <<-1, -1, 1, 1, -1>>

\* lineHist, the history of track 1 kept beside the frames:
\*   sg, ts        sign of its side and time at its last observation (sg 2: none yet)
\*   viaLine       how far its last observations follow the signs -1, 0, +1
\*   entryTr       time of its last entry transition (-1 to +1), entryRec: whether
\*                 the frame of that transition reported entries = 1
\*   exitRecTs     time of the last frame that reported exits = 1
\*   entryRecTs    time of the last frame that reported entries = 1
\*   cand          the transition of its last observation: entry, exit or none
\*   pair          set by a frame with an exit transition (+1 to -1) that directly
\*                 follows an entry transition: the time between the two (dt),
\*                 whether each was reported, and whether an exit had been
\*                 reported less than the cooldown before (exitRecent)
\*   k, eSum, xSum, eAt, xAt
\*                 the observations so far are the first k of InOutPattern, each
\*                 at least the cooldown after the one before (k = -1: they are
\*                 not), with the entries and exits reported over them and at the
\*                 3rd and 5th of them
HistAfter(h, sg, t, m, cooldown) ==
    LET entryTr == h.sg = -1 /\ sg = 1
        exitTr  == h.sg = 1 /\ sg = -1
        match   == h.k \in 0..4 /\ sg = InOutPattern[h.k + 1]
                   /\ (h.k = 0 \/ t - h.ts >= cooldown)
    IN  [ sg |-> sg, ts |-> t,
          viaLine |-> IF sg = -1 THEN "-"
                      ELSE IF h.viaLine = "-" /\ sg = 0 THEN "-0"
                      ELSE IF h.viaLine = "-0" /\ sg = 1 THEN "-0+"
                      ELSE "",
          entryTr  |-> IF entryTr THEN t ELSE h.entryTr,
          entryRec |-> IF entryTr THEN m.entries = 1 ELSE h.entryRec,
          lastWasEntryTr |-> entryTr,
          exitRecTs |-> IF m.exits = 1 THEN t ELSE h.exitRecTs,
          entryRecTs |-> IF m.entries = 1 THEN t ELSE h.entryRecTs,
          cand |-> IF entryTr THEN "entry" ELSE IF exitTr THEN "exit" ELSE "none",
          pair |-> IF exitTr /\ h.lastWasEntryTr
                   THEN [valid |-> TRUE, dt |-> t - h.entryTr, entryRec |-> h.entryRec,
                         exitRec |-> m.exits = 1,
                         exitRecent |-> t - h.exitRecTs < cooldown]
                   ELSE NoPair,
          k    |-> IF h.k = 5 THEN 5 ELSE IF match THEN h.k + 1 ELSE -1,
          eSum |-> IF match THEN h.eSum + m.entries ELSE h.eSum,
          xSum |-> IF match THEN h.xSum + m.exits ELSE h.xSum,
          eAt  |-> IF match /\ h.k = 2 THEN m.entries ELSE h.eAt,
          xAt  |-> IF match /\ h.k = 4 THEN m.exits ELSE h.xAt ]

EntradaInit ==
    /\ selfRoi = EntradaRoi
    /\ roiState = RoiStateInit
    /\ snapshot = NoMetrics
    /\ frameTs = 0
    /\ frameDets = <<>>
    /\ framePhase = "none"
    /\ ckRun = NoRun
    /\ lineHist = NoHist
    /\ frameRole = ""

\* metrics = w.update_metrics(dets, f.ts) on the next frame
EntradaFrame ==
    \E dets \in EntradaFrames, gap \in EntradaGaps :
      \E r \in {UpdateMetrics(selfRoi, roiState, dets, frameTs + gap)} :
        LET t    == frameTs + gap
            seen == {i \in 1..Len(dets) : dets[i].track_id = 1}
            d1   == dets[CHOOSE i \in seen : TRUE]
            ln   == EntradaRoi.lines["linha_entrada_saida"]
        IN  /\ t <= MaxTsEntrada
            /\ roiState' = r.state
            /\ snapshot' = r.metrics
            /\ frameTs' = t
            /\ frameDets' = dets
            /\ framePhase' = "done"
            /\ lineHist' = IF seen # {}
                           THEN HistAfter(lineHist, Sign(d1.xyxy[4] - ln[1][2]), t,
                                          r.metrics, LineCooldown(selfRoi))
                           ELSE [lineHist EXCEPT !.pair = NoPair]
            /\ frameRole' = InferRole(selfRoi)
            /\ UNCHANGED <<selfRoi, ckRun>>
            /\ UNCHANGED notCamVars

\* ---- cameras of every role, fed frames that may hold detections without
\* a usable box
SalaoRoi ==
    [ role   |-> "",
      zones  |-> [area_consumo |-> Rect(0, 0, 10, 10)],
      lines  |-> <<>>,
      params |-> <<>> ]

\* the ROI files: missing, of each role by its keys, with an explicit role
\* that differs from what the keys suggest, with a role that is none of the
\* three, with lines that are not two points
RoleRois ==
    { EmptyRoi, BalcaoRoi(TRUE), SalaoRoi, EntradaRoi,
      [BalcaoRoi(TRUE) EXCEPT !.role = "entrada"],
      [EntradaRoi EXCEPT !.role = "balcao"],
      [EmptyRoi EXCEPT !.role = "salao"],
      [EntradaRoi EXCEPT !.role = "caixa"],
      [EmptyRoi EXCEPT !.role = "caixa"],
      [EmptyRoi EXCEPT !.zones = [area_atendimento_fila |-> Rect(0, 8, 10, 20)]],
      [EmptyRoi EXCEPT !.zones = [zona_funcionario_caixa |-> Rect(20, 0, 30, 10)]],
      [SalaoRoi EXCEPT !.lines = EntradaRoi.lines],
      [BalcaoRoi(TRUE) EXCEPT !.zones = [k \in DOMAIN @ \cup {"area_consumo"} |->
                                            IF k = "area_consumo" THEN Rect(0, 0, 10, 10) ELSE @[k]]],
      [EmptyRoi EXCEPT !.lines = [linha_entrada_saida |-> << <<0, 5>> >>]],
      [SalaoRoi EXCEPT !.zones = [outra_zona |-> Rect(0, 0, 10, 10)]] }

\* detections without a usable box: none, or three values
Boxless(tid) == [xyxy |-> <<>>, track_id |-> tid]
ShortBox     == [xyxy |-> <<2, 2, 4>>, track_id |-> NoTrack]

\* track 1 with its foot above or below the line of EntradaRoi
Above == Box(2, 0, 5, 3, 1)
Below == Box(2, 0, 5, 7, 1)

RoleFrames ==
    { <<>>, <<Boxless(NoTrack)>>, <<DetPayOnly>>, <<DetPayOnly, DetStaff>>,
      <<ShortBox, DetPayOnly, Boxless(1), DetStaff>>, <<DetPayQueue, ShortBox>>,
      <<Above>>, <<Below>>, <<Boxless(1), Above>>, <<Below, Boxless(1)>>,
      <<Boxless(1), ShortBox>> }

\* ticks between two frames
RoleGaps == {20, 21}

\* the last frame time tried: three frames
MaxTsRoles == 63

RolesInit ==
    /\ selfRoi \in RoleRois
    /\ roiState = RoiStateInit
    /\ snapshot = NoMetrics
    /\ frameTs = 0
    /\ frameDets = <<>>
    /\ framePhase = "none"
    /\ ckRun = NoRun
    /\ lineHist = NoHist
    /\ frameRole = ""

\* metrics = w.update_metrics(dets, f.ts) on the next frame
RolesFrame ==
    \E dets \in RoleFrames, gap \in RoleGaps :
      \E r \in {UpdateMetrics(selfRoi, roiState, dets, frameTs + gap)} :
            /\ frameTs + gap <= MaxTsRoles
            /\ roiState' = r.state
            /\ snapshot' = r.metrics
            /\ frameTs' = frameTs + gap
            /\ frameDets' = dets
            /\ framePhase' = "done"
            /\ frameRole' = InferRole(selfRoi)
            /\ UNCHANGED <<selfRoi, ckRun, lineHist>>
            /\ UNCHANGED notCamVars

-----------------------------------------------------------------------------
(* The aggregator called through its two methods                            *)

Cameras == {"cam1", "cam2"}

\* sample timestamps (seconds): two in each of the windows 0, 60 and 120
AggTs == {10, 20, 70, 80, 130}

\* samples: the people_count of a metrics dict
AggSamples == {[people_count |-> IntV(n)] : n \in {2, 6}}

\* samples with further fields: a flag, a second count, a text; one sample
\* without people_count
MixedSamples ==
    { [people_count |-> IntV(2)],
      [people_count |-> IntV(6), staff |-> BoolV(TRUE), label |-> StrV("x")],
      [people_count |-> IntV(7), staff |-> BoolV(FALSE), queue |-> IntV(3)],
      [label |-> StrV("y")] }

\* timestamps of three windows, two of them in the first
MixedTs == {10, 20, 70, 130}

\* the number of aggregator calls tried
MaxCalls == 4

NoCall == [op |-> "none", cam |-> "", ts |-> 0, rolled |-> FALSE]
NoRuleCall == [made |-> FALSE, bucket |-> NoResult, events |-> <<>>]
NoWindow == [start |-> -1, vals |-> <<>>]

AggInit ==
    /\ buckets = [c \in Cameras |-> NoBucket]
    /\ closed = NoResult
    /\ aggCall = NoCall
    /\ aggPrev = NoCall
    /\ gwin = [c \in Cameras |-> NoWindow]
    /\ gprev = [c \in Cameras |-> NoWindow]
    /\ nCalls = 0
    /\ gsamples = [c \in Cameras |-> <<>>]
    /\ ruleCall = NoRuleCall

AggIdle ==
    /\ buckets = <<>>
    /\ closed = NoResult
    /\ aggCall = NoCall
    /\ aggPrev = NoCall
    /\ gwin = <<>>
    /\ gprev = <<>>
    /\ nCalls = 0
    /\ gsamples = <<>>
    /\ ruleCall = NoRuleCall

\* The history kept beside a call of add_sample: gwin[cam] holds the samples
\* added so far to the window the call's timestamp lies in, gprev[cam] the
\* samples of the window that was current before, when the call moved on to
\* a later one.
WindowsAfterAdd(cam, ts, m) ==
    LET w == gwin[cam]
        bstart == BucketStart(ts)
    IN  IF w.start = bstart
        THEN /\ gwin' = [gwin EXCEPT ![cam].vals = Append(@, m)]
             /\ gprev' = gprev
        ELSE /\ gwin' = [gwin EXCEPT ![cam] = [start |-> bstart, vals |-> <<m>>]]
             /\ gprev' = [gprev EXCEPT ![cam] = w]

\* whether a sample at ts leaves the camera's current window for a later one
RollsOver(cam, ts) == gwin[cam].start >= 0 /\ BucketStart(ts) > gwin[cam].start

\* aggregator.add_sample(camera_id, ts, metrics)
AddSampleFrom(cams, tss, samples) ==
    \E cam \in cams, ts \in tss, m \in samples :
        /\ nCalls < MaxCalls
        /\ buckets' = AddSample(buckets, cam, ts, m)
        /\ aggPrev' = aggCall
        /\ aggCall' = [op |-> "add", cam |-> cam, ts |-> ts, rolled |-> RollsOver(cam, ts)]
        /\ WindowsAfterAdd(cam, ts, m)
        /\ gsamples' = [gsamples EXCEPT ![cam] =
                            IF StartsBucket(buckets, cam, ts) THEN <<m>> ELSE Append(@, m)]
        /\ nCalls' = nCalls + 1
        /\ UNCHANGED <<closed, ruleCall>>
        /\ UNCHANGED <<mlVars, notAggVars>>

AggAddSample == AddSampleFrom(Cameras, AggTs, AggSamples)

\* the same call on the mixed samples of one camera
MixedAddSample == AddSampleFrom({"cam1"}, MixedTs, MixedSamples)

\* aggregator.try_close_bucket(camera_id, ts)
TryCloseFrom(cams, tss) ==
    \E cam \in cams, ts \in tss :
      \E r \in {TryCloseBucket(buckets, cam, ts)} :
            /\ nCalls < MaxCalls
            /\ buckets' = r.buckets
            /\ closed' = r.result
            /\ aggPrev' = aggCall
            /\ aggCall' = [op |-> "close", cam |-> cam, ts |-> ts, rolled |-> FALSE]
            /\ nCalls' = nCalls + 1
            /\ gsamples' = IF r.result = NoResult THEN gsamples
                           ELSE [gsamples EXCEPT ![cam] = <<>>]
            /\ UNCHANGED <<gwin, gprev, ruleCall>>
            /\ UNCHANGED <<mlVars, notAggVars>>

AggTryClose == TryCloseFrom(Cameras, AggTs)

MixedTryClose == TryCloseFrom({"cam1"}, MixedTs)

-----------------------------------------------------------------------------
(* vision/rules.py                                                          *)

\* a rule engine that alerts only above six people
RuleEvaluateAboveSix(bucket) ==
    LET m == bucket.metrics IN
    IF "people_count_max" \in DOMAIN m
       /\ m["people_count_max"].num > 6 * m["people_count_max"].den
    THEN << [ event_type |-> "queue_long",
              severity   |-> "warning",
              metadata   |-> [ts_bucket  |-> bucket.ts_bucket,
                               people_max |-> m["people_count_max"]] ] >>
    ELSE << >>

\* RuleEngine.evaluate(bucket): the list of alerts
RuleEvaluate(bucket) ==
    LET m == bucket.metrics IN
    IF "people_count_max" \in DOMAIN m
       /\ m["people_count_max"].num >= 6 * m["people_count_max"].den
    THEN << [ event_type |-> "queue_long",
              severity   |-> "warning",
              metadata   |-> [ts_bucket  |-> bucket.ts_bucket,
                               people_max |-> m["people_count_max"]] ] >>
    ELSE << >>

\* rules.evaluate(bucket) on the bucket try_close_bucket returned last
AggEvaluate ==
    /\ closed # NoResult
    /\ ruleCall' = [made |-> TRUE, bucket |-> closed, events |-> RuleEvaluate(closed)]
    /\ UNCHANGED <<buckets, closed, aggCall, aggPrev, gwin, gprev, nCalls, gsamples>>
    /\ UNCHANGED <<mlVars, notAggVars>>

-----------------------------------------------------------------------------
(* agent/lifecycle.py: the main loop of run_agent (vision enabled)          *)

StoreId == StrV("store1")
AgentMeta == [agent_id |-> StrV("agent1")]

\* now_iso() at clock value t
IsoOf(t) == StrV("T+" \o ToString(t))

\* the envelope built for a closed bucket, receipt id attached
BucketEnvelope(cam, bucket, now) ==
    AttachReceipt(
        BuildEnvelope("edge_metric_bucket", StrV("edge"),
                      [ store_id  |-> StoreId,
                        camera_id |-> StrV(cam),
                        ts_bucket |-> IntV(bucket.ts_bucket),
                        metrics   |-> bucket.metrics ],
                      AgentMeta, 1, now))

\* the detector finds n people; the cameras run without ROI file
People(n) == [i \in 1..n |-> Box(2, 2, 4, 6, NoTrack)]
MlPeopleCounts == {0, 6}

\* seconds between two frames of a camera, and the last frame time tried
MlGaps == {20, 60}
MaxTsMain == 130

MlInit ==
    /\ mlPending = <<>>
    /\ mlCrashed = FALSE
    /\ mlRolled = [c \in Cameras |-> {}]
    /\ mlClock = [c \in Cameras |-> 0]
    /\ mlRoiState = [c \in Cameras |-> RoiStateInit]

MlIdle ==
    /\ mlPending = <<>>
    /\ mlCrashed = TRUE
    /\ mlRolled = <<>>
    /\ mlClock = <<>>
    /\ mlRoiState = <<>>

\* the metrics dict as the aggregator reads it
AsSample(m) == [k \in DOMAIN m |-> IntV(m[k])]

\* One pass of the body of `for w in cameras` for a camera that has a frame:
\* update_metrics, add_sample, try_close_bucket with the frame's ts, and for a
\* closed bucket the envelope put on pending_queue followed by
\* rules.evaluate(camera_id=..., bucket=...), which RuleEngine.evaluate(self,
\* bucket) rejects with a TypeError that ends the loop.
MainLoopFrame ==
    \E cam \in Cameras, n \in MlPeopleCounts, gap \in MlGaps :
      \E um \in {UpdateMetrics(EmptyRoi, mlRoiState[cam], People(n), mlClock[cam] + gap)} :
      \E r \in {TryCloseBucket(AddSample(buckets, cam, mlClock[cam] + gap, AsSample(um.metrics)),
                                cam, mlClock[cam] + gap)} :
        LET ts == mlClock[cam] + gap
        IN  /\ ~mlCrashed
            /\ ts <= MaxTsMain
            /\ mlClock' = [mlClock EXCEPT ![cam] = ts]
            /\ mlRoiState' = [mlRoiState EXCEPT ![cam] = um.state]
            /\ mlRolled' = IF buckets[cam] # NoBucket /\ BucketStart(ts) > buckets[cam].ts_bucket
                           THEN [mlRolled EXCEPT ![cam] = @ \cup {buckets[cam].ts_bucket}]
                           ELSE mlRolled
            /\ buckets' = r.buckets
            /\ closed' = r.result
            /\ IF r.result # NoResult
               THEN /\ mlPending' = Append(mlPending, BucketEnvelope(cam, r.result, IsoOf(ts)))
                    /\ mlCrashed' = TRUE
               ELSE UNCHANGED <<mlPending, mlCrashed>>
            /\ UNCHANGED <<aggCall, aggPrev, gwin, gprev, nCalls, gsamples, ruleCall>>
            /\ UNCHANGED notAggVars

-----------------------------------------------------------------------------
(* agent/lifecycle.py: the sender thread, and queue/sqlite_queue.py          *)

\* The number of envelopes put on pending_queue.
MaxEnvelopes == 3
\* The backend refuses or misses at most MaxFails POSTs, then accepts.
MaxFails == 2
SendInterval == 5
BatchLimit == 50
GetTimeout == 1

Min2(a, b) == IF a <= b THEN a ELSE b

MakeHeartbeatEnvelopeNoReceipt(camera_id, status, error, now) ==
    BuildEnvelope(IF Truthy(camera_id) THEN "edge_camera_heartbeat" ELSE "edge_heartbeat",
                  StrV("edge-agent:agent1"),
                  [ store_id |-> StoreId, camera_id |-> camera_id, external_id |-> camera_id,
                    name |-> Null, rtsp_url |-> Null, status |-> StrV(status),
                    error |-> error, agent_id |-> AgentMeta.agent_id, ts |-> now ],
                  <<>>, 1, now)

\* _make_heartbeat_envelope(settings, camera_id, ...): the data dict, the
\* envelope of build_envelope, and the receipt id put on the envelope and,
\* data being the envelope's own dict, on its data as well
MakeHeartbeatEnvelope(camera_id, status, error, now) ==
    LET data == [ store_id    |-> StoreId,
                  camera_id   |-> camera_id,
                  external_id |-> camera_id,
                  name        |-> Null,
                  rtsp_url    |-> Null,
                  status      |-> StrV(status),
                  error       |-> error,
                  agent_id    |-> AgentMeta.agent_id,
                  ts          |-> now ]
        envelope == BuildEnvelope(
                        IF Truthy(camera_id) THEN "edge_camera_heartbeat" ELSE "edge_heartbeat",
                        StrV("edge-agent:agent1"), data, <<>>, 1, now)
        receipt_id == StrV(ComputeReceiptId(envelope))
        data2 == [k \in DOMAIN data \cup {"receipt_id"} |->
                     IF k = "receipt_id" THEN receipt_id ELSE data[k]]
    IN  [k \in DOMAIN envelope \cup {"receipt_id"} |->
            IF k = "receipt_id" THEN receipt_id
            ELSE IF k = "data" THEN data2
            ELSE envelope[k]]

\* the k-th envelope _heartbeat_loop puts: the store's heartbeat, then the
\* heartbeat of the one camera, round after round
HeartbeatOf(k) ==
    MakeHeartbeatEnvelope(IF k % 2 = 1 THEN Null ELSE StrV("cam1"), "online", Null, IsoOf(k))

\* The envelopes handed to the outbox: two heartbeats, a second envelope of
\* the first one's identity (so of its receipt id) with other data, and an
\* envelope nobody has put a receipt id on.
ObPayloads ==
    { HeartbeatOf(1), HeartbeatOf(2),
      MakeHeartbeatEnvelope(Null, "error", StrV("no frames"), IsoOf(1)),
      BuildEnvelope("edge_heartbeat", StrV("edge"), [store_id |-> StoreId], <<>>, 1, IsoOf(1)) }

\* a heartbeat an earlier run of the agent has left in the durable queue
StaleEnvelope == HeartbeatOf(0)

\* the dicts that are ever serialised
JsonUniverse == {HeartbeatOf(k) : k \in 0..(MaxEnvelopes + 1)} \cup ObPayloads

\* json.dumps of a dict, and json.loads of a text: the dict whose text it is
JsonDumps(item) == ToString(item)
JsonLoadable(payload) == \E x \in JsonUniverse : JsonDumps(x) = payload
JsonLoads(payload) == CHOOSE x \in JsonUniverse : JsonDumps(x) = payload
EmptyDict == << >>

\* SqliteQueue.enqueue: INSERT a row, the id is AUTOINCREMENT
Enqueue(st, nid, item) ==
    [ store  |-> Append(st, [id |-> nid, payload |-> JsonDumps(item)]),
      nextId |-> nid + 1 ]

\* A dequeue_batch that returns the newest rows first.
DequeueBatchNewestFirst(st, limit) ==
    [ i \in 1..Min2(Len(st), limit) |->
        [ id   |-> st[Len(st) + 1 - i].id,
          data |-> IF JsonLoadable(st[Len(st) + 1 - i].payload)
                     THEN JsonLoads(st[Len(st) + 1 - i].payload) ELSE EmptyDict ] ]

\* SqliteQueue.dequeue_batch: SELECT ... ORDER BY id ASC LIMIT ?, payloads loaded
DequeueBatch(st, limit) ==
    [ i \in 1..Min2(Len(st), limit) |->
        [ id   |-> st[i].id,
          data |-> IF JsonLoadable(st[i].payload) THEN JsonLoads(st[i].payload) ELSE EmptyDict ] ]

\* SqliteQueue.ack: DELETE FROM queue WHERE id = ?
Ack(st, row_id) == SelectSeq(st, LAMBDA r : r.id # row_id)

SendEventNoEnqueue(st, nid, envelope, ok, enqueue_on_fail) ==
    [store |-> st, nextId |-> nid]

\* A _send_event that stores every envelope, sent or not.
SendEventAlwaysEnqueue(st, nid, envelope, ok, enqueue_on_fail) == Enqueue(st, nid, envelope)

\* _send_event: what the POST's outcome does to the durable queue
SendEvent(st, nid, envelope, ok, enqueue_on_fail) ==
    IF ok THEN [store |-> st, nextId |-> nid]
    ELSE IF enqueue_on_fail THEN Enqueue(st, nid, envelope)
    ELSE [store |-> st, nextId |-> nid]

FlushRowAlwaysAck(st, nid, row, ok) == Ack(st, row.id)

\* the body of _flush_queue's loop for one row: _send_event without
\* enqueue_on_fail, then ack when it returned ok
FlushRow(st, nid, row, ok) ==
    IF ok THEN Ack(SendEvent(st, nid, row.data, ok, FALSE).store, row.id)
    ELSE SendEvent(st, nid, row.data, ok, FALSE).store

\* ApiClient.post_event returns ok or not; a refusal uses up the backend's budget
PostOutcomes == IF nFails < MaxFails THEN {TRUE, FALSE} ELSE {TRUE}
\* ... and nothing is known of what the backend answers to the {} that
\* dequeue_batch makes of a payload it cannot load
PostOutcomesOf(envelope) == IF envelope = EmptyDict THEN {TRUE, FALSE} ELSE PostOutcomes
\* the seconds post_event takes: a response comes at once or after a second;
\* a request that fails without a response has slept through backoffs [1, 2, 5]
PostSeconds(ok) == IF ok THEN {0, 1} ELSE {0, 1 + 2 + 5}

\* history of retries: the failed flush POSTs of the row now first in the
\* queue, the seconds since the last of them (counted up to WaitCap), and for
\* the last flush POST made the failures before it (n) and the seconds waited (w)
WaitCap == 2 ^ (MaxFails + 1)
NoRetry == [fails |-> 0, waited |-> 0, n |-> 0, w |-> 0]
RetryWaits(r, d) == IF r.fails = 0 THEN r ELSE [r EXCEPT !.waited = Min2(WaitCap, @ + d)]
RetryPosts(r, ok) ==
    [ fails  |-> IF ok THEN 0 ELSE Min2(MaxFails, r.fails + 1),
      waited |-> 0,
      n      |-> r.fails,
      w      |-> r.waited ]

SenderInit ==
    /\ pending = <<>>
    /\ store = <<>>
    /\ nextId = 1
    /\ senderPc = "get"
    /\ batch = <<>>
    /\ sinceFlush = SendInterval      \* last_flush = 0.0
    /\ posted = {}
    /\ nFails = 0
    /\ nPut = 0
    /\ failedSends = {}
    /\ failedFlushes = {}
    /\ flushedOk = {}
    /\ retry = NoRetry

SenderIdle == SenderInit

\* _heartbeat_loop and the main loop: pending_queue.put(envelope)
PendingPut ==
    /\ senderPc # "stopped"
    /\ nPut < MaxEnvelopes
    /\ nPut' = nPut + 1
    /\ pending' = Append(pending, HeartbeatOf(nPut + 1))
    /\ UNCHANGED <<store, nextId, senderPc, batch, sinceFlush, posted, nFails,
                   failedSends, failedFlushes, flushedOk, retry>>
    /\ UNCHANGED notSenderVars

\* _sender_loop: pending_queue.get returned an envelope, _send_event
SenderGet ==
    /\ senderPc = "get"
    /\ pending # <<>>
    /\ \E ok \in PostOutcomes : \E d \in PostSeconds(ok) :
         LET envelope == Head(pending)
             r == SendEvent(store, nextId, envelope, ok, TRUE)
         IN  /\ pending' = Tail(pending)
             /\ store' = r.store
             /\ nextId' = r.nextId
             /\ posted' = IF ok THEN posted \cup {envelope} ELSE posted
             /\ nFails' = IF ok THEN nFails ELSE nFails + 1
             /\ failedSends' = IF ok THEN failedSends ELSE failedSends \cup {envelope}
             /\ sinceFlush' = Min2(SendInterval, sinceFlush + d)
             /\ retry' = RetryWaits(retry, d)
    /\ senderPc' = "check"
    /\ UNCHANGED <<batch, nPut, failedFlushes, flushedOk>>
    /\ UNCHANGED notSenderVars

\* _sender_loop: pending_queue.get timed out (mem_queue.Empty)
SenderGetEmpty ==
    /\ senderPc = "get"
    /\ pending = <<>>
    /\ sinceFlush' = Min2(SendInterval, sinceFlush + GetTimeout)
    /\ retry' = RetryWaits(retry, GetTimeout)
    /\ senderPc' = "check"
    /\ UNCHANGED <<pending, store, nextId, batch, posted, nFails, nPut,
                   failedSends, failedFlushes, flushedOk>>
    /\ UNCHANGED notSenderVars

\* _sender_loop: if (now - last_flush) >= send_interval, _flush_queue starts
\* with dequeue_batch and last_flush = now
SenderCheck ==
    /\ senderPc = "check"
    /\ IF sinceFlush >= SendInterval
         THEN /\ batch' = DequeueBatch(store, BatchLimit)
              /\ sinceFlush' = 0
              /\ senderPc' = IF batch' = <<>> THEN "get" ELSE "flush"
         ELSE /\ senderPc' = "get"
              /\ UNCHANGED <<batch, sinceFlush>>
    /\ UNCHANGED <<pending, store, nextId, posted, nFails, nPut,
                   failedSends, failedFlushes, flushedOk, retry>>
    /\ UNCHANGED notSenderVars

\* _flush_queue: one turn of its loop; break at the first failure
FlushPost ==
    /\ senderPc = "flush"
    /\ \E ok \in PostOutcomesOf(Head(batch).data) : \E d \in PostSeconds(ok) :
         LET row == Head(batch)
         IN  /\ store' = FlushRow(store, nextId, row, ok)
             /\ batch' = IF ok THEN Tail(batch) ELSE <<>>
             /\ posted' = IF ok THEN posted \cup {row.data} ELSE posted
             /\ nFails' = IF ok \/ row.data = EmptyDict THEN nFails ELSE nFails + 1
             /\ retry' = RetryPosts(retry, ok)
             /\ flushedOk' = IF ok THEN flushedOk \cup {row.data} ELSE flushedOk
             /\ failedFlushes' = IF ok THEN failedFlushes ELSE failedFlushes \cup {row.data}
             /\ sinceFlush' = Min2(SendInterval, sinceFlush + d)
             /\ senderPc' = IF batch' = <<>> THEN "get" ELSE "flush"
    /\ UNCHANGED <<pending, nextId, nPut, failedSends>>
    /\ UNCHANGED notSenderVars

\* The queue file outlives the process: the rows run_agent may find in it
\* when it starts, a text that is no JSON among them.
CorruptPayload == "{\"event_name\": \"edge_hea"
FlushStores ==
    { << [id |-> 1, payload |-> CorruptPayload],
         [id |-> 2, payload |-> JsonDumps(StaleEnvelope)] >>,
      << [id |-> 1, payload |-> JsonDumps(StaleEnvelope)],
         [id |-> 2, payload |-> CorruptPayload] >> }

FlushInit ==
    /\ pending = <<>>
    /\ store \in FlushStores
    /\ nextId = 3
    /\ senderPc = "get"
    /\ batch = <<>>
    /\ sinceFlush = SendInterval
    /\ posted = {}
    /\ nFails = 0
    /\ nPut = 0
    /\ failedSends = {}
    /\ failedFlushes = {}
    /\ flushedOk = {}
    /\ retry = NoRetry

\* The durable queue called directly: at most MaxQueueRows rows are inserted.
MaxQueueRows == 3
QueueItems == {x \in ObPayloads : "receipt_id" \in DOMAIN x}

\* queue.enqueue(item)
QueueEnqueue ==
    /\ nextId <= MaxQueueRows
    /\ \E item \in QueueItems :
         LET r == Enqueue(store, nextId, item)
         IN  store' = r.store /\ nextId' = r.nextId
    /\ UNCHANGED <<pending, senderPc, batch, sinceFlush, posted, nFails, nPut,
                   failedSends, failedFlushes, flushedOk, retry>>
    /\ UNCHANGED notSenderVars

\* queue.dequeue_batch(limit=50)
QueueDequeueBatch ==
    /\ batch' = DequeueBatch(store, BatchLimit)
    /\ UNCHANGED <<pending, store, nextId, senderPc, sinceFlush, posted, nFails, nPut,
                   failedSends, failedFlushes, flushedOk, retry>>
    /\ UNCHANGED notSenderVars

\* queue.ack(row_id) for a row of the last batch
QueueAck ==
    /\ \E i \in 1..Len(batch) : store' = Ack(store, batch[i].id)
    /\ UNCHANGED <<pending, nextId, senderPc, batch, sinceFlush, posted, nFails, nPut,
                   failedSends, failedFlushes, flushedOk, retry>>
    /\ UNCHANGED notSenderVars

\* run_agent's shutdown: the main loop is left, stop_event is set, the
\* cameras are stopped and run_agent returns; the sender and heartbeat threads
\* are daemon threads and end with the process wherever they stand.  Of the
\* state only the queue file is left.
Shutdown ==
    /\ senderPc # "stopped"
    /\ senderPc' = "stopped"
    /\ pending' = <<>>
    /\ batch' = <<>>
    /\ UNCHANGED <<store, nextId, sinceFlush, posted, nFails, nPut,
                   failedSends, failedFlushes, flushedOk, retry>>
    /\ UNCHANGED notSenderVars

SenderThread == SenderGet \/ SenderGetEmpty \/ SenderCheck \/ FlushPost

-----------------------------------------------------------------------------
(* storage/sqlite_queue.py: the outbox, and ApiClient.flush_outbox           *)

\* A record fails at most MaxAttempts times.
MaxAttempts == 9
\* The outbox is given at most MaxObRows rows in all.
MaxObRows == 3

\* SqliteQueue.enqueue: INSERT OR IGNORE on the UNIQUE receipt_id (NULLs never
\* conflict); a payload without the key raises KeyError, which is caught.
\* The created_at column, which nothing reads, is left out.
OutboxEnqueueAlways(ob, nid, payload, now) ==
    [ outbox |-> Append(ob, [ id |-> nid, receipt_id |-> Get(payload, "receipt_id"),
                              payload_json |-> JsonDumps(payload), attempts |-> 0,
                              last_error |-> Null, next_attempt_at |-> 0 ]),
      nextId |-> nid + 1,
      result |-> TRUE ]

OutboxEnqueue(ob, nid, payload, now) ==
    IF "receipt_id" \notin DOMAIN payload
        THEN [outbox |-> ob, nextId |-> nid, result |-> FALSE]
    ELSE IF /\ payload.receipt_id # Null
            /\ \E i \in 1..Len(ob) : ob[i].receipt_id = payload.receipt_id
        THEN [outbox |-> ob, nextId |-> nid, result |-> TRUE]
    ELSE [ outbox |-> Append(ob, [ id |-> nid, receipt_id |-> payload.receipt_id,
                                   payload_json |-> JsonDumps(payload), attempts |-> 0,
                                   last_error |-> Null, next_attempt_at |-> 0 ]),
           nextId |-> nid + 1,
           result |-> TRUE ]

\* SqliteQueue.peek_batch: the rows due, by id, at most `limit`, payloads
\* loaded; json.loads raises on a text that is no JSON
PeekBatch(ob, now, limit) ==
    LET due  == SelectSeq(ob, LAMBDA r : r.next_attempt_at <= now)
        rows == SubSeq(due, 1, Min2(Len(due), limit))
    IN  [ raised |-> \E i \in 1..Len(rows) : ~JsonLoadable(rows[i].payload_json),
          rows   |-> [ i \in 1..Len(rows) |->
                         [ id         |-> rows[i].id,
                           receipt_id |-> rows[i].receipt_id,
                           payload    |-> IF JsonLoadable(rows[i].payload_json)
                                            THEN JsonLoads(rows[i].payload_json)
                                            ELSE EmptyDict,
                           attempts   |-> rows[i].attempts ] ] ]

\* SqliteQueue.mark_sent
MarkSent(ob, row_id) == SelectSeq(ob, LAMBDA r : r.id # row_id)

\* an UPDATE without its WHERE clause
MarkFailedEveryRow(ob, row_id, error, attempts, backoff_seconds, now) ==
    [ i \in 1..Len(ob) |->
        [ob[i] EXCEPT !.last_error = error, !.attempts = attempts,
                      !.next_attempt_at = now + backoff_seconds] ]

\* SqliteQueue.mark_failed
MarkFailed(ob, row_id, error, attempts, backoff_seconds, now) ==
    [ i \in 1..Len(ob) |->
        IF ob[i].id = row_id
            THEN [ob[i] EXCEPT !.last_error = error, !.attempts = attempts,
                               !.next_attempt_at = now + backoff_seconds]
            ELSE ob[i] ]

BackoffUncapped(attempts) == 2 ^ attempts

\* flush_outbox: backoff = min(300, 2 ** min(attempts, 8))
Backoff(attempts) == Min2(300, 2 ^ Min2(attempts, 8))

\* flush_outbox: the loop over the batch; oks[i] is whether the POST of the
\* i-th row returned ok
RECURSIVE FlushOutboxRows(_, _, _, _, _)
FlushOutboxRows(ob, rows, oks, i, now) ==
    IF i > Len(rows) THEN ob
    ELSE FlushOutboxRows(
             IF oks[i] THEN MarkSent(ob, rows[i].id)
             ELSE MarkFailed(ob, rows[i].id, StrV("error"), rows[i].attempts + 1,
                             Backoff(rows[i].attempts + 1), now),
             rows, oks, i + 1, now)

NoObCall == [op |-> "none", payload |-> EmptyDict, limit |-> 0, rows |-> << >>, oks |-> << >>]

\* flush_outbox(queue, batch_size): the default, and a batch of one
BatchSizes == {1, BatchLimit}

\* time.time(): times are measured from the present, so the clock reads 0 and
\* the passing of time moves every next_attempt_at back instead
ObNow == 0

OutboxInit ==
    /\ outbox = << >>
    /\ obNextId = 1
    /\ obCall = NoObCall
    /\ obDelay = [n \in 1..MaxAttempts |-> 0]

OutboxIdle == OutboxInit

\* a caller enqueues an envelope
ObEnqueue ==
    /\ obNextId <= MaxObRows
    /\ \E payload \in ObPayloads :
         LET r == OutboxEnqueue(outbox, obNextId, payload, ObNow)
         IN  /\ outbox' = r.outbox
             /\ obNextId' = r.nextId
             /\ obCall' = [NoObCall EXCEPT !.op = "enqueue", !.payload = payload]
    /\ UNCHANGED obDelay
    /\ UNCHANGED notOutboxVars

\* ApiClient.flush_outbox(queue)
ObFlush ==
    /\ \E batch_size \in BatchSizes :
       LET peeked == PeekBatch(outbox, ObNow, batch_size)
       IN  /\ ~peeked.raised
           /\ peeked.rows # << >>
           /\ \E oks \in [1..Len(peeked.rows) -> BOOLEAN] :
                /\ \A i \in 1..Len(oks) : ~oks[i] => peeked.rows[i].attempts < MaxAttempts
                /\ outbox' = FlushOutboxRows(outbox, peeked.rows, oks, 1, ObNow)
                /\ obCall' = [NoObCall EXCEPT !.op = "flush", !.limit = batch_size,
                                               !.rows = [i \in 1..Len(oks) |-> peeked.rows[i].id],
                                               !.oks = oks]
                /\ obDelay' = [ n \in 1..MaxAttempts |->
                                  IF \E i \in 1..Len(oks) :
                                        ~oks[i] /\ peeked.rows[i].attempts + 1 = n
                                      THEN LET i == CHOOSE j \in 1..Len(oks) :
                                                      ~oks[j] /\ peeked.rows[j].attempts + 1 = n
                                               r == CHOOSE x \in {outbox'[k] : k \in 1..Len(outbox')} :
                                                      x.id = peeked.rows[i].id
                                           IN  r.next_attempt_at - ObNow
                                      ELSE obDelay[n] ]
    /\ UNCHANGED obNextId
    /\ UNCHANGED notOutboxVars

\* time passes until the next record is due
ObTick ==
    /\ \E i \in 1..Len(outbox) : outbox[i].next_attempt_at > ObNow
    /\ LET d == CHOOSE t \in {outbox[i].next_attempt_at - ObNow : i \in 1..Len(outbox)} :
                  /\ t > 0
                  /\ \A i \in 1..Len(outbox) :
                       outbox[i].next_attempt_at > ObNow => t <= outbox[i].next_attempt_at - ObNow
       IN  outbox' = [ i \in 1..Len(outbox) |->
                         [outbox[i] EXCEPT !.next_attempt_at = Max2(0, @ - d)] ]
    /\ obCall' = [NoObCall EXCEPT !.op = "tick"]
    /\ UNCHANGED <<obNextId, obDelay>>
    /\ UNCHANGED notOutboxVars

-----------------------------------------------------------------------------
(* transport/api_client.py: post_event, as _send_event calls it              *)

\* what session.post does in one attempt: it returns a response with a status
\* (requests follows redirects itself; 300 and 304 are returned as they are),
\* or it raises
HttpStatuses == {200, 201, 204, 299, 300, 304, 400, 401, 403, 404, 500, 503}
PostRaises == {"timeout", "connection_error", "request_exception"}
Responds(status) == [kind |-> "response", status |-> status]
Raises(kind) == [kind |-> kind, status |-> 0]

\* A post_event with one more retry.
BackoffsLonger == <<1, 2, 5, 10>>

\* backoffs = [1, 2, 5]
Backoffs == <<1, 2, 5>>

\* requests' Response.ok: raise_for_status() raises for 400 <= status < 600 only
ROk(status) == ~(400 <= status /\ status < 600)

\* post_event's loop from attempt `attempt` (counted from 0) on; outs[i] is
\* what the i-th session.post does.  status None is responded = FALSE.  The
\* result carries, beside the dict returned, the number of session.post calls
\* made and the time.sleep calls made between them.
RECURSIVE PostEventFrom(_, _, _)
PostEventFrom(outs, attempt, waits) ==
    LET o == outs[attempt + 1] IN
    IF o.kind = "response"
    THEN [ ok |-> ROk(o.status), responded |-> TRUE, status |-> o.status,
           error |-> IF ROk(o.status) THEN "" ELSE "text",
           attempts |-> attempt + 1, waits |-> waits ]
    ELSE IF attempt < Len(Backoffs)
    THEN PostEventFrom(outs, attempt + 1, Append(waits, Backoffs[attempt + 1]))
    ELSE [ ok |-> FALSE, responded |-> FALSE, status |-> 0,
           error |-> IF o.kind = "request_exception" THEN "text" ELSE o.kind,
           attempts |-> attempt + 1, waits |-> waits ]

PostEvent(outs) == PostEventFrom(outs, 0, << >>)

\* The network fails a request at most MaxRaises times in a row before it
\* answers, or it fails every request.
MaxRaises == 5

\* what the network would do to one request after the other, as far as anyone
\* asks: session.post raises k times (the same exception) and then gets a
\* response, or it raises every time
RaiseSeqs(k) == {[i \in 1..k |-> Raises(x)] : x \in PostRaises}
PostCourses ==
    UNION { {Append(f, Responds(st)) : f \in RaiseSeqs(k), st \in HttpStatuses}
            : k \in 0..MaxRaises }
    \cup RaiseSeqs(MaxRaises + 1)

NoPostCall == [outs |-> << >>, envelope |-> EmptyDict, ok |-> FALSE, kept |-> FALSE,
               attempts |-> 0, waits |-> << >>]

PostInit == postCall = NoPostCall

\* _send_event(client, envelope, enqueue_on_fail=lambda: queue.enqueue(envelope)),
\* the sender loop's call
SendEventCall ==
    /\ nextId <= MaxQueueRows
    /\ \E envelope \in {HeartbeatOf(1)}, outs \in PostCourses :
         LET res == PostEvent(outs)
             r   == SendEvent(store, nextId, envelope, res.ok, TRUE)
         IN  /\ store' = r.store
             /\ nextId' = r.nextId
             /\ postCall' = [ outs |-> outs, envelope |-> envelope, ok |-> res.ok,
                              kept |-> r.store # store,
                              attempts |-> res.attempts, waits |-> res.waits ]
    /\ UNCHANGED <<pending, senderPc, batch, sinceFlush, posted, nFails, nPut,
                   failedSends, failedFlushes, flushedOk, retry>>
    /\ UNCHANGED <<hbLoop, roiCache, roiCall, receiptVars, aggVars, mlVars, camVars, outboxVars,
                   threadVars>>

-----------------------------------------------------------------------------
(* dalevision_edge_agent: main()'s loop of camera syncs and heartbeats,      *)
(* cameras.py's requests with their AuthFailureTracker, heartbeat.py          *)

AUTH_FAILURE_STATUSES == {401, 403}
MAX_CONSECUTIVE_AUTH_FAILURES == 5
MAX_CONSECUTIVE_FAILURES == 10
EXIT_AUTH_ERROR == 3
EXIT_NETWORK_ERROR == 4

\* the active cameras a sync is given, at most
MaxCams == 3

\* the statuses a backend answers with
LoopStatuses == {200, 201, 304, 401, 403, 404, 500}

\* what a request can come to: a response, or no response at all
\* (requests.RequestException, in cameras.py at each of the four attempts).
\* A backend that does not accept the token answers every request 401 or 403.
RequestOutcomes(backend) ==
    IF backend = "rejects" THEN {Responds(st) : st \in AUTH_FAILURE_STATUSES}
    ELSE {Responds(st) : st \in LoopStatuses} \cup {Raises("request_exception")}

Is2xx(o) == o.kind = "response" /\ 200 <= o.status /\ o.status < 300
IsAuthFailure(o) == o.kind = "response" /\ o.status \in AUTH_FAILURE_STATUSES

\* AuthFailureTracker.register(status): the new self.consecutive
Register(consecutive, o) ==
    IF IsAuthFailure(o) THEN consecutive + 1
    ELSE IF o.kind = "response" THEN 0
    ELSE consecutive

\* _request_json_with_backoff(..., auth_tracker): whether a payload is
\* returned, and the tracker's count after it
RequestJsonWithBackoff(consecutive, o) ==
    IF Is2xx(o) THEN [payload |-> TRUE, consecutive |-> 0]
    ELSE IF o.kind = "response" THEN [payload |-> FALSE, consecutive |-> Register(consecutive, o)]
    ELSE [payload |-> FALSE, consecutive |-> consecutive]

\* heartbeat.send_heartbeat's parameters (all keyword-only), and the
\* keywords main()'s loop calls it with
SendHeartbeatParams == {"url", "edge_token", "store_id", "agent_id", "version", "timeout_seconds"}
LoopHeartbeatKwargs == {"url", "edge_token", "store_id", "agent_id", "version", "timeout_seconds",
                        "extra_data"}

NoOutcome == [kind |-> "none", status |-> 0]

\* build_camera_heartbeat_fields(camera_states); the counts by status and the
\* list of cameras are left out
CameraFields(cameras) == [cameras_total |-> IntV(cameras)]

\* send_heartbeat called with the keywords `names`, extra_data among them or
\* not, when the POST comes to o: the exception raised, the payload POSTed
\* and the tuple returned
SendHeartbeatCall(names, extra_data, o) ==
    IF ~(names \subseteq SendHeartbeatParams)
    THEN [ made |-> TRUE, extra_data |-> extra_data, raised |-> "TypeError",
           data |-> EmptyDict, ok |-> FALSE, resp |-> NoOutcome, error |-> FALSE ]
    ELSE [ made |-> TRUE, extra_data |-> extra_data, raised |-> "",
           data |-> [ store_id |-> StoreId, ts |-> NowIso,
                      agent_id |-> AgentMeta.agent_id, version |-> StrV("0.1.0") ],
           ok |-> Is2xx(o), resp |-> o, error |-> ~Is2xx(o) ]

NoHeartbeatCall ==
    [ made |-> FALSE, extra_data |-> EmptyDict, raised |-> "", data |-> EmptyDict,
      ok |-> FALSE, resp |-> NoOutcome, error |-> FALSE ]

\* the loop's variables before its first iteration
LoopStart(backend) ==
    [ backend |-> backend,
      pc |-> "sync",                      \* "sync", "roi", "health", "beat"
      synced |-> FALSE,                   \* last_camera_sync_at > 0
      camsLeft |-> 0,                     \* active cameras the sync has yet to visit
      camsTotal |-> 0,                    \* active cameras of the sync under way
      cameras |-> 0,                      \* len(camera_states)
      backoff_index |-> 0,
      consecutive_failures |-> 0,
      last_failure_status |-> NoOutcome,
      consecutive_auth_failures |-> 0,
      tracker |-> 0,                      \* camera_auth_tracker.consecutive
      resp |-> NoOutcome,                 \* history: what the last request came to
      running |-> TRUE,
      exit |-> 0,                         \* the process's exit status once not running
      raised |-> "",                      \* the exception main() was left by
      call |-> NoHeartbeatCall ]          \* history: the last send_heartbeat call

HbInit == hbLoop \in {LoopStart(b) : b \in {"any", "rejects"}}
HbIdle == hbLoop = LoopStart("any")

Return(h, code) == [h EXCEPT !.running = FALSE, !.exit = code]
\* an exception nothing catches: traceback, exit status 1
Uncaught(h, exc) == [h EXCEPT !.running = FALSE, !.exit = 1, !.raised = exc]
\* the sync is over: last_camera_sync_at = now
ToBeat(h) == [h EXCEPT !.pc = "beat", !.synced = TRUE, !.camsLeft = 0]
\* ... after every camera was visited: camera_states = fresh_states
SyncDone(h) == [ToBeat(h) EXCEPT !.cameras = h.camsTotal]

\* `if camera_auth_tracker.consecutive >= MAX_CONSECUTIVE_AUTH_FAILURES: return EXIT_AUTH_ERROR`
TrackerCheck(h, otherwise) ==
    IF h.tracker >= MAX_CONSECUTIVE_AUTH_FAILURES THEN Return(h, EXIT_AUTH_ERROR) ELSE otherwise

HbLeaves == /\ UNCHANGED <<postCall, roiCache, roiCall>>
            /\ UNCHANGED <<receiptVars, aggVars, mlVars, camVars, senderVars, outboxVars, threadVars>>

\* The top of an iteration.  With now - last_camera_sync_at < camera_sync_interval
\* there is no sync; otherwise fetch_cameras and what the loop does with its
\* result, up to the first camera.
FetchCameras ==
    /\ hbLoop.running /\ hbLoop.pc = "sync"
    /\ \/ hbLoop.synced /\ hbLoop' = [hbLoop EXCEPT !.pc = "beat"]
       \/ \E o \in RequestOutcomes(hbLoop.backend), n \in 0..MaxCams :
            LET r == RequestJsonWithBackoff(hbLoop.tracker, o)
                h == [hbLoop EXCEPT !.tracker = r.consecutive, !.resp = o]
            IN  hbLoop' = IF ~r.payload THEN TrackerCheck(h, ToBeat(h))     \* cameras_error
                          ELSE IF n = 0 THEN SyncDone([h EXCEPT !.camsTotal = 0])
                          ELSE [h EXCEPT !.pc = "roi", !.camsLeft = n, !.camsTotal = n]
    /\ HbLeaves

\* check_camera_health, fetch_roi (a cache hit makes no request) and the check after it
FetchRoi ==
    /\ hbLoop.running /\ hbLoop.pc = "roi"
    /\ \/ hbLoop' = TrackerCheck(hbLoop, [hbLoop EXCEPT !.pc = "health"])
       \/ \E o \in RequestOutcomes(hbLoop.backend) :
            LET r == RequestJsonWithBackoff(hbLoop.tracker, o)
                h == [hbLoop EXCEPT !.tracker = r.consecutive, !.resp = o]
            IN  hbLoop' = TrackerCheck(h, [h EXCEPT !.pc = "health"])
    /\ HbLeaves

\* the loop on to the next camera, or to the heartbeat after the last
NextCamera(h) ==
    IF h.camsLeft > 1 THEN [h EXCEPT !.pc = "roi", !.camsLeft = @ - 1] ELSE SyncDone(h)

\* send_camera_health_event and the check after it
SendCameraHealthEvent ==
    /\ hbLoop.running /\ hbLoop.pc = "health"
    /\ \E o \in RequestOutcomes(hbLoop.backend) :
         LET r == RequestJsonWithBackoff(hbLoop.tracker, o)
             h == [hbLoop EXCEPT !.tracker = r.consecutive, !.resp = o]
         IN  hbLoop' = TrackerCheck(h, NextCamera(h))
    /\ HbLeaves

\* `except Exception` around one camera's checks: the camera is offline
CameraCheckRaises ==
    /\ hbLoop.running /\ hbLoop.pc = "roi"
    /\ hbLoop' = NextCamera(hbLoop)
    /\ HbLeaves

\* the loop's lines after send_heartbeat has returned (ok, status, error)
AfterHeartbeat(h0, o) ==
    LET h == [h0 EXCEPT !.resp = o] IN
    IF Is2xx(o)
    THEN [h EXCEPT !.backoff_index = 0, !.consecutive_failures = 0,
                   !.last_failure_status = NoOutcome, !.consecutive_auth_failures = 0,
                   !.pc = "sync"]
    ELSE
      LET h1 == [h EXCEPT !.consecutive_failures = @ + 1, !.last_failure_status = o]
          h2 == IF IsAuthFailure(o) THEN [h1 EXCEPT !.consecutive_auth_failures = @ + 1]
                ELSE IF o.kind = "response" THEN [h1 EXCEPT !.consecutive_auth_failures = 0]
                ELSE h1
      IN  IF IsAuthFailure(o) /\ h2.consecutive_auth_failures >= MAX_CONSECUTIVE_AUTH_FAILURES
          THEN Return(h2, EXIT_AUTH_ERROR)
          ELSE IF h2.consecutive_failures >= MAX_CONSECUTIVE_FAILURES
          THEN IF IsAuthFailure(o) THEN Return(h2, EXIT_AUTH_ERROR)
               ELSE IF o.kind # "response" THEN Return(h2, EXIT_NETWORK_ERROR)
               ELSE Return(h2, 1)
          ELSE [h2 EXCEPT !.backoff_index = @ + 1, !.pc = "sync"]

\* the loop's call send_heartbeat(url=..., ..., extra_data=camera_fields): a
\* keyword the function does not have is a TypeError before any request
SendHeartbeat ==
    /\ hbLoop.running /\ hbLoop.pc = "beat"
    /\ \E o \in RequestOutcomes(hbLoop.backend) :
         LET c == SendHeartbeatCall(LoopHeartbeatKwargs, CameraFields(hbLoop.cameras), o)
             h == [hbLoop EXCEPT !.call = c]
         IN  hbLoop' = IF c.raised # "" THEN Uncaught(h, c.raised) ELSE AfterHeartbeat(h, o)
    /\ HbLeaves

-----------------------------------------------------------------------------
(* dalevision_edge_agent/cameras.py: fetch_roi and the ROI cache files       *)

\* a dict as a value of a dict
DictV(d) == [t |-> "dict", s |-> "", n |-> 0, d |-> d]

\* str(v) of a string or an integer
PyStr(v) == IF v.t = "int" THEN StrV(ToString(v.n)) ELSE v

\* the payloads the ROI endpoint answers with: the version at the top, as a
\* string or a number, inside data, empty, or nowhere; {} stands for a body
\* that is no JSON
RoiPayloads ==
    { [version |-> StrV("v5"), data |-> DictV([roi |-> StrV("r1")])],
      [version |-> StrV("v6"), data |-> DictV([roi |-> StrV("r2")])],
      [version |-> IntV(7)],
      [data |-> DictV([version |-> StrV("v6"), roi |-> StrV("r3")])],
      [version |-> StrV(""), data |-> StrV("r4")],
      [zones |-> StrV("z")],
      EmptyDict }

\* _extract_roi_version(payload)
ExtractRoiVersion(payload) ==
    LET direct == Get(payload, "version")
        data   == Get(payload, "data")
    IN  IF Truthy(direct) THEN PyStr(direct)
        ELSE IF data.t = "dict" /\ Truthy(Get(data.d, "version")) THEN PyStr(data.d["version"])
        ELSE StrV("unknown")

\* to_cache = dict(payload); to_cache["version"] = version
ToCache(payload, version) ==
    [k \in DOMAIN payload \cup {"version"} |-> IF k = "version" THEN version ELSE payload[k]]

\* a camera's cache file: missing, holding text that is no JSON, or holding
\* what _save_cached_roi wrote
NoFile == "<no file>"
CorruptFile == "{\"version\": \"v5\", \"da"
RoiFiles == {ToCache(p, ExtractRoiVersion(p)) : p \in RoiPayloads}

\* _load_cached_roi: None for a missing file and for one json.loads rejects
LoadCachedRoi(cache, camera_id) ==
    IF \E f \in RoiFiles : JsonDumps(f) = cache[camera_id]
    THEN CHOOSE f \in RoiFiles : JsonDumps(f) = cache[camera_id]
    ELSE Null

\* _save_cached_roi
SaveCachedRoi(cache, camera_id, payload) == [cache EXCEPT ![camera_id] = JsonDumps(payload)]

\* A fetch_roi that does not write the cache file.
FetchRoiNoSave(cache, camera_id, expected_version, o) ==
    LET cached         == LoadCachedRoi(cache, camera_id)
        cached_version == IF cached # Null /\ Truthy(Get(cached, "version"))
                          THEN PyStr(cached["version"]) ELSE Null
    IN  IF Truthy(expected_version) /\ cached_version = expected_version
        THEN [ cache |-> cache, requested |-> FALSE, payload |-> cached,
               version |-> cached_version, from_cache |-> TRUE, error |-> Null ]
        ELSE IF o = Null
        THEN [ cache |-> cache, requested |-> TRUE, payload |-> cached,
               version |-> cached_version, from_cache |-> TRUE,
               error |-> StrV("ROI endpoint unavailable") ]
        ELSE [ cache |-> cache, requested |-> TRUE,
               payload |-> ToCache(o, ExtractRoiVersion(o)),
               version |-> ExtractRoiVersion(o), from_cache |-> FALSE, error |-> Null ]

\* fetch_roi(camera_id, expected_version=...) when the one ROI endpoint comes
\* to o, a payload or None (no 2xx response): the cache files after it, whether
\* a request was made, and the tuple returned
FetchRoiResult(cache, camera_id, expected_version, o) ==
    LET cached         == LoadCachedRoi(cache, camera_id)
        cached_version == IF cached # Null /\ Truthy(Get(cached, "version"))
                          THEN PyStr(cached["version"]) ELSE Null
    IN  IF Truthy(expected_version) /\ cached_version = expected_version
        THEN [ cache |-> cache, requested |-> FALSE, payload |-> cached,
               version |-> cached_version, from_cache |-> TRUE, error |-> Null ]
        ELSE IF o = Null
        THEN [ cache |-> cache, requested |-> TRUE, payload |-> cached,
               version |-> cached_version, from_cache |-> TRUE,
               error |-> StrV("ROI endpoint unavailable") ]
        ELSE LET version  == ExtractRoiVersion(o)
                 to_cache == ToCache(o, version)
             IN  [ cache |-> SaveCachedRoi(cache, camera_id, to_cache), requested |-> TRUE,
                   payload |-> to_cache, version |-> version, from_cache |-> FALSE,
                   error |-> Null ]

RoiCams == {"cam-1", "cam-2"}
ExpectedVersions == {Null, StrV(""), StrV("v5"), StrV("v6"), StrV("7"), StrV("unknown")}

NoRoiCall == [camera_id |-> "", expected_version |-> Null, requested |-> FALSE,
              payload |-> Null, version |-> Null, from_cache |-> FALSE, error |-> Null]

RoiInit ==
    /\ roiCache \in [RoiCams -> {NoFile, CorruptFile,
                                 JsonDumps([version |-> StrV("v5"),
                                            data |-> DictV([roi |-> StrV("r1")])])}]
    /\ roiCall = NoRoiCall

RoiIdle ==
    /\ roiCache = << >>
    /\ roiCall = NoRoiCall

ClientIdle == PostInit /\ HbIdle /\ RoiIdle

\* a call of fetch_roi
FetchRoiCall ==
    /\ \E camera_id \in RoiCams, expected_version \in ExpectedVersions,
          o \in RoiPayloads \cup {Null} :
         LET r == FetchRoiResult(roiCache, camera_id, expected_version, o)
         IN  /\ roiCache' = r.cache
             /\ roiCall' = [ camera_id |-> camera_id, expected_version |-> expected_version,
                             requested |-> r.requested, payload |-> r.payload,
                             version |-> r.version, from_cache |-> r.from_cache,
                             error |-> r.error ]
    /\ UNCHANGED <<postCall, hbLoop>>
    /\ UNCHANGED <<receiptVars, aggVars, mlVars, camVars, senderVars, outboxVars, threadVars>>

-----------------------------------------------------------------------------
(* storage/sqlite_queue.py and queue/sqlite_queue.py: SqliteQueue's lock     *)
(* around the one connection that all of its callers share                  *)

\* one thread enqueues while another flushes
Threads == {"enqueuer", "flusher"}
\* at most MaxLockCalls calls are made on the queue
MaxLockCalls == 4

NoStmt == [name |-> "none", payload |-> EmptyDict, row_id |-> 0, attempts |-> 0]

\* a lock that anybody can take at any time
LockFreeAlways(holder) == TRUE

\* threading.Lock: `with self._lock` gets past its entry when nobody holds the lock
LockFree(holder) == holder = "nobody"

\* self._conn.execute(...): what the statement makes of the rows as the
\* connection sees them; a SELECT leaves them as they are
ExecuteStmt(conn, nid, stmt, now) ==
    CASE stmt.name = "enqueue" ->
             LET r == OutboxEnqueue(conn, nid, stmt.payload, now)
             IN  [rows |-> r.outbox, nextId |-> r.nextId]
      [] stmt.name = "mark_sent" ->
             [rows |-> MarkSent(conn, stmt.row_id), nextId |-> nid]
      [] stmt.name = "mark_failed" ->
             [rows |-> MarkFailed(conn, stmt.row_id, StrV("error"), stmt.attempts,
                                  Backoff(stmt.attempts), now),
              nextId |-> nid]
      [] OTHER -> [rows |-> conn, nextId |-> nid]

\* SqliteQueue(path) on a new file
LockInit ==
    lockSt = [ holder  |-> "nobody",
               pc      |-> [t \in Threads |-> "idle"],
               stmt    |-> [t \in Threads |-> NoStmt],
               db      |-> << >>,        \* the rows committed to the file
               conn    |-> << >>,        \* the rows as the connection sees them
               nextId  |-> 1,
               pending |-> << >>,        \* the statements executed and not yet committed
               peeked  |-> << >>,        \* the flusher's batch: rows not yet marked
               calls   |-> 0 ]

LockIdle == LockInit

\* the calls a thread can make: enqueue(payload) by the one, by the other
\* peek_batch() and, for a row of the batch, mark_sent or mark_failed
StmtsOf(t) ==
    IF t = "enqueuer"
        THEN { [NoStmt EXCEPT !.name = "enqueue", !.payload = x] : x \in QueueItems }
    ELSE { [NoStmt EXCEPT !.name = "peek_batch"] }
         \cup { [NoStmt EXCEPT !.name = nm, !.row_id = lockSt.peeked[1].id,
                               !.attempts = lockSt.peeked[1].attempts + 1]
                : nm \in IF lockSt.peeked = << >> THEN {} ELSE {"mark_sent", "mark_failed"} }

\* a method of SqliteQueue is called: its arguments are ready, and it comes
\* to `with self._lock`
LockCall(t) ==
    /\ lockSt.pc[t] = "idle"
    /\ lockSt.calls < MaxLockCalls
    /\ \E st \in StmtsOf(t) :
         lockSt' = [lockSt EXCEPT !.pc[t] = "acquire", !.stmt[t] = st, !.calls = @ + 1]
    /\ UNCHANGED <<loopSt, handoff, receiptVars, aggVars, mlVars, camVars, senderVars,
                   outboxVars, clientVars>>

\* `with self._lock`: the lock is taken
LockAcquire(t) ==
    /\ lockSt.pc[t] = "acquire"
    /\ LockFree(lockSt.holder)
    /\ lockSt' = [lockSt EXCEPT !.holder = t, !.pc[t] = "execute"]
    /\ UNCHANGED <<loopSt, handoff, receiptVars, aggVars, mlVars, camVars, senderVars,
                   outboxVars, clientVars>>

\* self._conn.execute(...); a SELECT is followed by fetchall() and by no commit
LockExecute(t) ==
    /\ lockSt.pc[t] = "execute"
    /\ LET st == lockSt.stmt[t]
           r  == ExecuteStmt(lockSt.conn, lockSt.nextId, st, ObNow)
       IN  IF st.name = "peek_batch"
             THEN lockSt' = [lockSt EXCEPT !.pc[t] = "release",
                                !.peeked = PeekBatch(lockSt.conn, ObNow, BatchLimit).rows]
             ELSE lockSt' = [lockSt EXCEPT !.pc[t] = "commit",
                                !.conn = r.rows, !.nextId = r.nextId,
                                !.pending = Append(@, [by |-> t, stmt |-> st]),
                                !.peeked = IF st.name = "enqueue" THEN @ ELSE Tail(@)]
    /\ UNCHANGED <<loopSt, handoff, receiptVars, aggVars, mlVars, camVars, senderVars,
                   outboxVars, clientVars>>

\* self._conn.commit(): everything the connection has executed is written
LockCommit(t) ==
    /\ lockSt.pc[t] = "commit"
    /\ lockSt' = [lockSt EXCEPT !.pc[t] = "release", !.db = lockSt.conn, !.pending = << >>]
    /\ UNCHANGED <<loopSt, handoff, receiptVars, aggVars, mlVars, camVars, senderVars,
                   outboxVars, clientVars>>

\* the end of the `with` block: the lock is released, the method returns
LockRelease(t) ==
    /\ lockSt.pc[t] = "release"
    /\ lockSt' = [lockSt EXCEPT !.pc[t] = "idle", !.holder = "nobody", !.stmt[t] = NoStmt]
    /\ UNCHANGED <<loopSt, handoff, receiptVars, aggVars, mlVars, camVars, senderVars,
                   outboxVars, clientVars>>


LockCalls == \E t \in Threads : LockCall(t)
LockAcquires == \E t \in Threads : LockAcquire(t)
LockExecutes == \E t \in Threads : LockExecute(t)
LockCommits == \E t \in Threads : LockCommit(t)
LockReleases == \E t \in Threads : LockRelease(t)

-----------------------------------------------------------------------------
(* agent/lifecycle.py: stop_event, and the two loops that watch it           *)

LoopThreads == {"sender", "heartbeat"}
\* each loop is entered at most MaxLoopTurns times
MaxLoopTurns == 3
\* a loop is over when its `while` has seen the signal, or with the process
LoopOver == {"done", "killed"}

\* a loop that never looks at the signal
SeesStopNever(stop) == FALSE

\* `while not stop_event.is_set()`
SeesStop(stop) == stop

NoAfter == [gets |-> 0, sends |-> 0, passes |-> 0, rows |-> 0, puts |-> 0, turns |-> 0]
\* history: what has been started since the signal was set
Count(k) == IF loopSt.stop THEN loopSt.after[k] + 1 ELSE loopSt.after[k]

\* run_agent has started sender_thread and hb_thread
LoopInit ==
    loopSt = [ stop     |-> FALSE,
               pc       |-> [t \in LoopThreads |-> "top"],
               pendingN |-> 0,           \* envelopes on pending_queue
               storeN   |-> 0,           \* rows of the durable queue
               batchN   |-> 0,           \* rows the flush pass has still to send
               turns    |-> [t \in LoopThreads |-> 0],
               after    |-> NoAfter ]

LoopIdle == LoopInit

LoopLeaves ==
    UNCHANGED <<lockSt, handoff, receiptVars, aggVars, mlVars, camVars, senderVars,
                outboxVars, clientVars>>

\* the top of either loop: the `while` test
LoopTop(t) ==
    /\ loopSt.pc[t] = "top"
    /\ IF SeesStop(loopSt.stop)
         THEN loopSt' = [loopSt EXCEPT !.pc[t] = "done"]
         ELSE /\ loopSt.turns[t] < MaxLoopTurns
              /\ loopSt' = [loopSt EXCEPT !.pc[t] = IF t = "sender" THEN "get" ELSE "put",
                                          !.turns[t] = @ + 1,
                                          !.after.turns = Count("turns")]
    /\ LoopLeaves

\* _sender_loop: pending_queue.get(timeout=1.0) returns an envelope, or
\* raises Empty after the second
LoopGet ==
    /\ loopSt.pc["sender"] = "get"
    /\ loopSt' = IF loopSt.pendingN > 0
                   THEN [loopSt EXCEPT !.pc["sender"] = "send", !.pendingN = @ - 1,
                                       !.after.gets = Count("gets")]
                   ELSE [loopSt EXCEPT !.pc["sender"] = "check",
                                       !.after.gets = Count("gets")]
    /\ LoopLeaves

\* _sender_loop: _send_event with enqueue_on_fail; post_event has made its
\* bounded retries when it returns; an exception is logged and followed by
\* stop_event.wait(1.0)
LoopSend ==
    /\ loopSt.pc["sender"] = "send"
    /\ \E outcome \in {"ok", "failed", "raised"} :
         loopSt' = [loopSt EXCEPT
                      !.pc["sender"] = IF outcome = "raised" THEN "wait" ELSE "check",
                      !.storeN = IF outcome = "failed" THEN @ + 1 ELSE @,
                      !.after.sends = Count("sends")]
    /\ LoopLeaves

\* _sender_loop: when send_interval has passed, _flush_queue starts with
\* dequeue_batch(limit=50)
LoopCheck ==
    /\ loopSt.pc["sender"] = "check"
    /\ \E due \in BOOLEAN :
         loopSt' = IF due
                     THEN [loopSt EXCEPT
                             !.batchN = Min2(loopSt.storeN, BatchLimit),
                             !.pc["sender"] = IF loopSt.storeN = 0 THEN "top" ELSE "flush",
                             !.after.passes = Count("passes")]
                     ELSE [loopSt EXCEPT !.pc["sender"] = "top"]
    /\ LoopLeaves

\* _flush_queue: one row of the batch: ack when sent, break when not
LoopFlushRow ==
    /\ loopSt.pc["sender"] = "flush"
    /\ \E ok \in BOOLEAN :
         loopSt' = IF ok
                     THEN [loopSt EXCEPT
                             !.storeN = @ - 1, !.batchN = @ - 1,
                             !.pc["sender"] = IF loopSt.batchN = 1 THEN "top" ELSE "flush",
                             !.after.rows = Count("rows")]
                     ELSE [loopSt EXCEPT !.batchN = 0, !.pc["sender"] = "top",
                                         !.after.rows = Count("rows")]
    /\ LoopLeaves

\* _heartbeat_loop: the store's heartbeat and one per camera are put on
\* pending_queue
BeatPut ==
    /\ loopSt.pc["heartbeat"] = "put"
    /\ \E cams \in 0..MaxCams :
         loopSt' = [loopSt EXCEPT !.pc["heartbeat"] = "wait", !.pendingN = @ + 1 + cams,
                                  !.after.puts = Count("puts")]
    /\ LoopLeaves

\* stop_event.wait(timeout) returns, the signal set or the time over
LoopWait(t) ==
    /\ loopSt.pc[t] = "wait"
    /\ loopSt' = [loopSt EXCEPT !.pc[t] = "top"]
    /\ LoopLeaves

\* run_agent's finally: stop_event.set()
StopSet ==
    /\ ~loopSt.stop
    /\ loopSt' = [loopSt EXCEPT !.stop = TRUE]
    /\ LoopLeaves

\* run_agent returns: a daemon thread that is still running ends with the process
ProcessExit ==
    /\ loopSt.stop
    /\ \E t \in LoopThreads : loopSt.pc[t] \notin LoopOver
    /\ loopSt' = [loopSt EXCEPT
                    !.pc = [t \in LoopThreads |-> IF @[t] \in LoopOver THEN @[t] ELSE "killed"]]
    /\ LoopLeaves

LoopTops == \E t \in LoopThreads : LoopTop(t)
LoopWaits == \E t \in LoopThreads : LoopWait(t)
SenderLoop == LoopTop("sender") \/ LoopGet \/ LoopSend \/ LoopCheck \/ LoopFlushRow \/ LoopWait("sender")
HeartbeatLoop == LoopTop("heartbeat") \/ BeatPut \/ LoopWait("heartbeat")

-----------------------------------------------------------------------------
(* camera/rtsp.py: _last_frame, written by the worker's thread and taken by  *)
(* the main loop, with no lock                                               *)

\* at most MaxFrames frames are emitted, and the clock is read up to MaxClock
MaxFrames == 3
MaxClock == 6
\* 1.0 / fps_limit in ticks of the clock; 0 stands for an fps_limit that is
\* not positive, which switches the limit off
FpsPeriod == 2
FpsPeriods == {0, FpsPeriod}
\* time.time() between two frames read: the same reading again, or a later one
ClockSteps == {0, 1, 2}

NoFrame == [id |-> 0, ts |-> 0]

\* RtspCameraWorker(...) with its thread started, and the main loop running
HandoffInit ==
    \E period \in FpsPeriods :
       handoff = [ fps_period |-> period,
                   clock      |-> FpsPeriod,
                   last_emit  |-> 0,        \* last_emit = 0.0
                   now        |-> 0,        \* the worker's local `now`
                   cpc        |-> "read",
                   last_frame |-> NoFrame,  \* self._last_frame = None
                   nFrames    |-> 0,
                   f          |-> NoFrame,  \* try_get_frame's local f
                   mpc        |-> "idle",
                   returned   |-> << >>,    \* history: the frames try_get_frame has returned
                   dropped    |-> {} ]      \* history: frames written and never returned

HandoffIdle == handoff = [ fps_period |-> 0, clock |-> FpsPeriod, last_emit |-> 0, now |-> 0,
                           cpc |-> "read", last_frame |-> NoFrame, nFrames |-> 0,
                           f |-> NoFrame, mpc |-> "idle", returned |-> << >>, dropped |-> {} ]

HandoffLeaves ==
    UNCHANGED <<lockSt, loopSt, receiptVars, aggVars, mlVars, camVars, senderVars,
                outboxVars, clientVars>>

\* run: a frame is read, now = time.time(), and the fps limit either skips
\* the frame or sets last_emit = now
CaptureStamp ==
    /\ handoff.cpc = "read"
    /\ handoff.nFrames < MaxFrames
    /\ \E d \in ClockSteps :
         LET now == handoff.clock + d
         IN  /\ now <= MaxClock
             /\ handoff' =
                  IF handoff.fps_period > 0 /\ (now - handoff.last_emit) < handoff.fps_period
                    THEN [handoff EXCEPT !.clock = now]
                    ELSE [handoff EXCEPT !.clock = now, !.now = now, !.last_emit = now,
                                         !.cpc = "write"]
    /\ HandoffLeaves

\* run: self._last_frame = Frame(image=frame, ts=now)
CaptureWrite ==
    /\ handoff.cpc = "write"
    /\ handoff' = [handoff EXCEPT
                     !.cpc = "read",
                     !.nFrames = @ + 1,
                     !.last_frame = [id |-> handoff.nFrames + 1, ts |-> handoff.now],
                     !.dropped = IF handoff.last_frame = NoFrame \/ handoff.last_frame = handoff.f
                                   THEN @ ELSE @ \cup {handoff.last_frame.id}]
    /\ HandoffLeaves

\* try_get_frame: f = self._last_frame
TryGetRead ==
    /\ handoff.mpc = "idle"
    /\ handoff' = [handoff EXCEPT !.mpc = "clear", !.f = handoff.last_frame]
    /\ HandoffLeaves

\* a try_get_frame that leaves the frame where it is
TryGetKeeps ==
    /\ handoff.mpc = "clear"
    /\ handoff' = [handoff EXCEPT
                     !.mpc = "idle",
                     !.f = NoFrame,
                     !.returned = IF handoff.f = NoFrame THEN @ ELSE Append(@, handoff.f)]
    /\ Len(handoff'.returned) <= MaxFrames
    /\ HandoffLeaves

\* try_get_frame: self._last_frame = None; return f.  The main loop goes on
\* to update_metrics and add_sample with f.ts when f is a frame.
TryGetClear ==
    /\ handoff.mpc = "clear"
    /\ handoff' = [handoff EXCEPT
                     !.mpc = "idle",
                     !.f = NoFrame,
                     !.last_frame = NoFrame,
                     !.returned = IF handoff.f = NoFrame THEN @ ELSE Append(@, handoff.f),
                     !.dropped = IF handoff.last_frame = handoff.f THEN @
                                 ELSE @ \cup {handoff.last_frame.id}]
    /\ HandoffLeaves

-----------------------------------------------------------------------------
(* The specifications so far                                                 *)

ReceiptNext == AttachReceiptsStep
AggregatorNext == AggAddSample \/ AggTryClose
BucketsNext == MixedAddSample \/ MixedTryClose \/ AggEvaluate
MainLoopNext == MainLoopFrame
BalcaoNext == BalcaoFrame
CheckoutNext == CheckoutFrame
EntradaNext == EntradaFrame
TimedNext == TimedFrame
RolesNext == RolesFrame
OutboxNext == ObEnqueue \/ ObFlush \/ ObTick
QueueNext == QueueEnqueue \/ QueueDequeueBatch \/ QueueAck
PostNext == SendEventCall
RoiNext == FetchRoiCall
HeartbeatNext == FetchCameras \/ FetchRoi \/ SendCameraHealthEvent \/ CameraCheckRaises \/ SendHeartbeat
SenderNext == PendingPut \/ SenderGet \/ SenderGetEmpty \/ SenderCheck \/ FlushPost
LockNext == LockCalls \/ LockAcquires \/ LockExecutes \/ LockCommits \/ LockReleases
LoopsNext == LoopTops \/ LoopGet \/ LoopSend \/ LoopCheck \/ LoopFlushRow \/ BeatPut \/ LoopWaits \/ StopSet \/ ProcessExit
HandoffNext == CaptureStamp \/ CaptureWrite \/ TryGetRead \/ TryGetClear
ShutdownNext == PendingPut \/ SenderGet \/ SenderGetEmpty \/ SenderCheck \/ FlushPost \/ Shutdown

ThreadIdle     == LockIdle /\ LoopIdle /\ HandoffIdle
RestIdle       == ReceiptIdle /\ AggIdle /\ MlIdle /\ CamIdle /\ SenderIdle /\ OutboxIdle /\ ClientIdle
InitReceipt    == ReceiptInit /\ AggIdle /\ MlIdle /\ CamIdle /\ SenderIdle /\ OutboxIdle /\ ClientIdle /\ ThreadIdle
InitAggregator == AggInit /\ ReceiptIdle /\ MlIdle /\ CamIdle /\ SenderIdle /\ OutboxIdle /\ ClientIdle /\ ThreadIdle
InitMainLoop   == MlInit /\ AggInit /\ ReceiptIdle /\ CamIdle /\ SenderIdle /\ OutboxIdle /\ ClientIdle /\ ThreadIdle
InitBalcao     == BalcaoInit /\ ReceiptIdle /\ AggIdle /\ MlIdle /\ SenderIdle /\ OutboxIdle /\ ClientIdle /\ ThreadIdle
InitCheckout   == CheckoutInit /\ ReceiptIdle /\ AggIdle /\ MlIdle /\ SenderIdle /\ OutboxIdle /\ ClientIdle /\ ThreadIdle
InitSender     == SenderInit /\ ReceiptIdle /\ AggIdle /\ MlIdle /\ CamIdle /\ OutboxIdle /\ ClientIdle /\ ThreadIdle
InitOutbox     == OutboxInit /\ ReceiptIdle /\ AggIdle /\ MlIdle /\ CamIdle /\ SenderIdle /\ ClientIdle /\ ThreadIdle
InitFlush      == FlushInit /\ ReceiptIdle /\ AggIdle /\ MlIdle /\ CamIdle /\ OutboxIdle /\ ClientIdle /\ ThreadIdle
InitQueue      == SenderInit /\ ReceiptIdle /\ AggIdle /\ MlIdle /\ CamIdle /\ OutboxIdle /\ ClientIdle /\ ThreadIdle
InitPost       == SenderInit /\ PostInit /\ HbIdle /\ RoiIdle /\ ReceiptIdle /\ AggIdle /\ MlIdle /\ CamIdle /\ OutboxIdle /\ ThreadIdle
InitHeartbeat  == HbInit /\ PostInit /\ RoiIdle /\ SenderIdle /\ ReceiptIdle /\ AggIdle /\ MlIdle /\ CamIdle /\ OutboxIdle /\ ThreadIdle
InitRoi        == RoiInit /\ PostInit /\ HbIdle /\ SenderIdle /\ ReceiptIdle /\ AggIdle /\ MlIdle /\ CamIdle /\ OutboxIdle /\ ThreadIdle
InitTimed      == TimedInit /\ ReceiptIdle /\ AggIdle /\ MlIdle /\ SenderIdle /\ OutboxIdle /\ ClientIdle /\ ThreadIdle
InitEntrada    == EntradaInit /\ ReceiptIdle /\ AggIdle /\ MlIdle /\ SenderIdle /\ OutboxIdle /\ ClientIdle /\ ThreadIdle
InitLock       == LockInit /\ LoopIdle /\ HandoffIdle /\ RestIdle
InitLoops      == LoopInit /\ LockIdle /\ HandoffIdle /\ RestIdle
InitHandoff    == HandoffInit /\ LockIdle /\ LoopIdle /\ RestIdle
InitRoles      == RolesInit /\ ReceiptIdle /\ AggIdle /\ MlIdle /\ SenderIdle /\ OutboxIdle /\ ClientIdle /\ ThreadIdle

SpecReceipt    == InitReceipt /\ [][ReceiptNext]_vars
SpecAggregator == InitAggregator /\ [][AggregatorNext]_vars
SpecBuckets == InitAggregator /\ [][BucketsNext]_vars
SpecMainLoop   == InitMainLoop /\ [][MainLoopNext]_vars
SpecBalcao     == InitBalcao /\ [][BalcaoNext]_vars
SpecCheckout   == InitCheckout /\ [][CheckoutNext]_vars
SpecEntrada    == InitEntrada /\ [][EntradaNext]_vars
SpecTimed      == InitTimed /\ [][TimedNext]_vars
SpecRoles      == InitRoles /\ [][RolesNext]_vars
\* two threads on one SqliteQueue
SpecLock       == InitLock /\ [][LockNext]_vars
\* a camera worker's thread and the main loop
SpecHandoff    == InitHandoff /\ [][HandoffNext]_vars
\* the two loops are threads that are always scheduled again
SpecLoops      == InitLoops /\ [][LoopsNext]_vars /\ WF_vars(SenderLoop) /\ WF_vars(HeartbeatLoop)
SpecOutbox     == InitOutbox /\ [][OutboxNext]_vars
SpecQueue      == InitQueue /\ [][QueueNext]_vars
\* the agent run until it is stopped
SpecShutdown   == InitSender /\ [][ShutdownNext]_vars
SpecPost       == InitPost /\ [][PostNext]_vars
SpecRoi        == InitRoi /\ [][RoiNext]_vars
SpecHeartbeat  == InitHeartbeat /\ [][HeartbeatNext]_vars
\* the sender thread started on a queue file that holds rows
SpecFlush      == InitFlush /\ [][SenderNext]_vars /\ WF_vars(SenderThread)
\* the sender is a thread of its own that is always scheduled again
SpecSender     == InitSender /\ [][SenderNext]_vars /\ WF_vars(SenderThread)

-----------------------------------------------------------------------------
(* Claims C1 and C2: delivery                                               *)

Stored(envelope) == \E i \in 1..Len(store) : store[i].payload = JsonDumps(envelope)

\* C1: every envelope put on pending_queue is eventually POSTed with success,
\* by the immediate send or by a later flush of the durable queue, when the
\* sender thread keeps running and the backend ends up accepting.
C1_AtLeastOnceDelivery ==
    \A k \in 1..MaxEnvelopes : (nPut >= k) ~> (HeartbeatOf(k) \in posted)

\* an envelope whose immediate send failed and that a later flush has POSTed
C1_Witness ==
    \E e \in {HeartbeatOf(k) : k \in 1..MaxEnvelopes} :
        /\ e \in failedSends
        /\ e \in flushedOk
        /\ e \in posted
        /\ ~Stored(e)

\* C2: an envelope whose immediate send failed is in the durable queue, and it
\* stays there, whatever number of flush POSTs fail for it, until a POST of its
\* row has returned ok.
C2_NoDropOnFailure ==
    \A e \in {HeartbeatOf(k) : k \in 1..MaxEnvelopes} :
        (e \in (failedSends \cup failedFlushes) /\ e \notin flushedOk) => Stored(e)

\* an envelope still stored after its immediate send and a flush of it failed
C2_Witness ==
    \E e \in {HeartbeatOf(k) : k \in 1..MaxEnvelopes} :
        /\ e \in failedSends
        /\ e \in failedFlushes
        /\ e \notin posted
        /\ Stored(e)

-----------------------------------------------------------------------------
(* Claims C11 and C13: the outbox                                           *)

\* C11: the outbox never holds two records of one receipt_id, and enqueueing
\* an envelope whose receipt_id is stored already leaves the outbox, so that
\* record's payload, attempts and next_attempt_at, as it was.
C11_EnqueueIdempotent ==
    /\ [](\A i, j \in 1..Len(outbox) :
             i # j => outbox[i].receipt_id # outbox[j].receipt_id)
    /\ [][ ( /\ obCall'.op = "enqueue"
             /\ "receipt_id" \in DOMAIN obCall'.payload
             /\ \E i \in 1..Len(outbox) : outbox[i].receipt_id = obCall'.payload.receipt_id )
           => outbox' = outbox ]_vars

\* an envelope enqueued while a record of its receipt_id, with another
\* payload, has failed and waits for its next attempt
C11_Witness ==
    /\ obCall.op = "enqueue"
    /\ \E i \in 1..Len(outbox) :
         /\ outbox[i].receipt_id = Get(obCall.payload, "receipt_id")
         /\ outbox[i].payload_json # JsonDumps(obCall.payload)
         /\ outbox[i].attempts >= 1
         /\ outbox[i].next_attempt_at > ObNow
    /\ Len(outbox) = 2

\* the attempt counts a failure has been seen for
SeenAttempts == {n \in 1..MaxAttempts : obDelay[n] # 0}

\* the part of C13 that holds as stated: the delay given after the n-th failure
\* is min(300, 2^min(n, 8)), so 2, 4, 8 for n = 1, 2, 3, it never decreases
\* with n and never exceeds 300
BackoffAsStated ==
    /\ \A n \in SeenAttempts :
         /\ obDelay[n] = (IF 2 ^ (IF n < 8 THEN n ELSE 8) < 300
                            THEN 2 ^ (IF n < 8 THEN n ELSE 8) ELSE 300)
         /\ obDelay[n] <= 300
         /\ n = 1 => obDelay[n] = 2
         /\ n = 2 => obDelay[n] = 4
         /\ n = 3 => obDelay[n] = 8
    /\ \A m, n \in SeenAttempts : m <= n => obDelay[m] <= obDelay[n]

-----------------------------------------------------------------------------
(* Claim C14: the retries of run_agent's durable queue                      *)

\* min(300, 2^min(n, 8))
ScheduleDelay(n) ==
    IF 2 ^ (IF n < 8 THEN n ELSE 8) < 300 THEN 2 ^ (IF n < 8 THEN n ELSE 8) ELSE 300

\* C14: a record of the durable queue whose n-th flush POST failed is not
\* POSTed again before min(300, 2^min(n, 8)) seconds have passed since that
\* failure.
C14_RetryWaitsForSchedule ==
    retry.n >= 1 => retry.w >= ScheduleDelay(retry.n)

-----------------------------------------------------------------------------
(* Claims C12, C15, C16 and C19: run_agent's queues                         *)

\* the dict dequeue_batch makes of a stored row
Loaded(row) == IF JsonLoadable(row.payload) THEN JsonLoads(row.payload) ELSE EmptyDict

\* C12: the durable queue of the sender loop holds one record per receipt_id:
\* enqueueing two envelopes of the same receipt_id leaves one stored record.
C12_QueueDeduplicates ==
    \A i, j \in 1..Len(store) :
        i # j => Get(Loaded(store[i]), "receipt_id") # Get(Loaded(store[j]), "receipt_id")

\* C15: the envelopes waiting in pending_queue never exceed a fixed capacity,
\* here one less than the producers put in all.
C15_PendingBounded ==
    Len(pending) <= MaxEnvelopes - 1

CarriesReceipt(env) ==
    /\ "receipt_id" \in DOMAIN env
    /\ env.receipt_id = StrV(ComputeReceiptId(env))

\* C16: every envelope on pending_queue, in the durable queue or passed to
\* post_event carries the receipt_id compute_receipt_id gives for it, and each
\* flush POST of an event carries the receipt_id its immediate send carried.
C16_ReceiptCarriedAndStable ==
    /\ \A i \in 1..Len(pending) : CarriesReceipt(pending[i])
    /\ \A i \in 1..Len(store) : CarriesReceipt(Loaded(store[i]))
    /\ \A i \in 1..Len(batch) : CarriesReceipt(batch[i].data)
    /\ \A env \in posted \cup failedSends \cup failedFlushes \cup flushedOk : CarriesReceipt(env)
    /\ \A env \in failedFlushes \cup flushedOk :
         \E first \in failedSends :
            /\ first.receipt_id = env.receipt_id
            /\ ComputeReceiptId(first) = ComputeReceiptId(env)

\* an event sent three times: at once, by a flush that failed, by one that did not
C16_Witness ==
    \E env \in failedSends \cap failedFlushes \cap flushedOk :
        /\ CarriesReceipt(env)
        /\ env.data.receipt_id = env.receipt_id

\* C19: a stored record whose payload cannot be loaded is removed from the
\* durable queue, and the records stored with it are delivered.
C19_CorruptRecordDropped ==
    /\ (\E i \in 1..Len(store) : ~JsonLoadable(store[i].payload))
          ~> (\A i \in 1..Len(store) : JsonLoadable(store[i].payload))
    /\ Stored(StaleEnvelope) ~> (StaleEnvelope \in posted)

-----------------------------------------------------------------------------
(* Claims C17 and C18: what a response's status means to the client          *)

\* the response post_event got, if it got one
PostAnswered2xx ==
    LET last == postCall.outs[postCall.attempts]
    IN  last.kind = "response" /\ 200 <= last.status /\ last.status <= 299

\* C17: post_event reports ok exactly when the response's status is in
\* 200..299; with every other status and with every transport failure it
\* reports not ok and the caller keeps the event for a retry.
C17_OkExactlyOn2xx ==
    postCall # NoPostCall =>
        /\ postCall.ok <=> PostAnswered2xx
        /\ ~PostAnswered2xx => postCall.kept

\* C18: in the loop of heartbeats and camera syncs consecutive 401/403
\* responses are counted, and when a count reaches 5 the loop ends with the
\* auth exit code 3, which is not the exit code 4 of a network failure: a
\* loop that gets 401 or 403 for every request ends by that exit and no other.
C18_AuthFailuresFatal ==
    /\ EXIT_AUTH_ERROR # EXIT_NETWORK_ERROR
    /\ (hbLoop.tracker >= MAX_CONSECUTIVE_AUTH_FAILURES
          \/ hbLoop.consecutive_auth_failures >= MAX_CONSECUTIVE_AUTH_FAILURES)
         => (~hbLoop.running /\ hbLoop.exit = EXIT_AUTH_ERROR)
    /\ (hbLoop.backend = "rejects" /\ ~hbLoop.running)
         => (hbLoop.exit = EXIT_AUTH_ERROR /\ hbLoop.raised = "")

\* C22: send_heartbeat takes an extra_data mapping and merges it into the
\* event's data: every key of extra_data is in data of the payload POSTed,
\* with its value, and with a 2xx response the call returns (True, status, None).
C22_ExtraDataMerged ==
    hbLoop.call.made =>
        /\ hbLoop.call.raised = ""
        /\ \A k \in DOMAIN hbLoop.call.extra_data :
              /\ k \in DOMAIN hbLoop.call.data
              /\ hbLoop.call.data[k] = hbLoop.call.extra_data[k]
        /\ Is2xx(hbLoop.call.resp) => (hbLoop.call.ok /\ ~hbLoop.call.error)

-----------------------------------------------------------------------------
(* Claim C23: the ROI cache                                                  *)

\* the version the camera's cache file holds, None without a readable file
StoredVersion(cache, camera_id) == Get(LoadCachedRoi(cache, camera_id), "version")

\* C23: a fetch_roi call whose expected_version equals the version held in the
\* camera's cache file returns the cached payload with that version,
\* from_cache true and no error, and makes no request; after a download the
\* cache file holds the payload returned, with the version returned, so that
\* the next call for the camera with that version expected is a cache hit.
C23_RoiCacheHit ==
    /\ [][ (roiCall'.camera_id \in RoiCams
              /\ StoredVersion(roiCache, roiCall'.camera_id) # Null
              /\ roiCall'.expected_version = StoredVersion(roiCache, roiCall'.camera_id))
           => /\ ~roiCall'.requested
              /\ roiCall'.payload = LoadCachedRoi(roiCache, roiCall'.camera_id)
              /\ roiCall'.version = roiCall'.expected_version
              /\ roiCall'.from_cache
              /\ roiCall'.error = Null
              /\ roiCache' = roiCache ]_vars
    /\ []( (roiCall.requested /\ ~roiCall.from_cache)
           => /\ LoadCachedRoi(roiCache, roiCall.camera_id) = roiCall.payload
              /\ StoredVersion(roiCache, roiCall.camera_id) = roiCall.version )
    /\ [][ (roiCall.requested /\ ~roiCall.from_cache
              /\ roiCall'.camera_id = roiCall.camera_id
              /\ roiCall'.expected_version = roiCall.version)
           => (~roiCall'.requested /\ roiCall'.from_cache /\ roiCall'.error = Null
                 /\ roiCall'.payload = roiCall.payload) ]_vars

\* a download of a payload without a version of its own, then a call that
\* expects the version returned and is served from the cache
C23_Witness ==
    /\ roiCall.camera_id = "cam-1"
    /\ roiCall.from_cache /\ ~roiCall.requested
    /\ roiCall.version = StrV("unknown")
    /\ roiCache["cam-2"] = JsonDumps([version |-> StrV("7")])

\* C24: when the agent is stopped, every envelope that was put on the pending
\* queue and has not been POSTed with success is in the durable queue, where
\* the next start of the process finds it.
C24_EventsSurviveShutdown ==
    [][ (senderPc # "stopped" /\ senderPc' = "stopped") =>
           \A i \in 1..Len(pending) :
              pending[i] \notin posted =>
                 \E j \in 1..Len(store') : store'[j].payload = JsonDumps(pending[i]) ]_vars

\* C25: an envelope whose immediate POST succeeds is not enqueued, and as long
\* as no POST has failed the durable queue is empty.
C25_HealthyNeverStores ==
    /\ [](nFails = 0 => store = <<>>)
    /\ [][ (pending # <<>> /\ pending' = Tail(pending) /\ nFails' = nFails)
           => store' = store ]_vars

\* every envelope was sent at once, and flushes have come and found nothing
C25_Witness ==
    /\ nFails = 0
    /\ Cardinality(posted) = MaxEnvelopes
    /\ store = <<>>
    /\ senderPc = "get" /\ sinceFlush = 0

\* the requests that fail before the first response
RECURSIVE LeadingRaises(_)
LeadingRaises(outs) ==
    IF outs = << >> \/ Head(outs).kind = "response" THEN 0 ELSE 1 + LeadingRaises(Tail(outs))

\* C26: post_event makes at most 4 requests, the first and at most 3 retries,
\* one retry for each request that failed without a response; it waits 1, 2
\* and 5 seconds, in that order, before the retries; and it returns a result.
C26_RetryBound ==
    postCall # NoPostCall =>
        /\ postCall.attempts = Min2(4, LeadingRaises(postCall.outs) + 1)
        /\ postCall.waits = SubSeq(<<1, 2, 5>>, 1, postCall.attempts - 1)
        /\ postCall.ok \in BOOLEAN

\* the network fails more requests than post_event makes
C26_Witness ==
    /\ postCall.attempts = 4
    /\ LeadingRaises(postCall.outs) > 4
    /\ postCall.waits = <<1, 2, 5>>
    /\ ~postCall.ok /\ postCall.kept

-----------------------------------------------------------------------------
(* Claim C27: the rule engine's queue threshold                             *)

\* the peak people count of a closed bucket reaches six
PeakAtLeastSix(bucket) ==
    /\ "people_count_max" \in DOMAIN bucket.metrics
    /\ bucket.metrics["people_count_max"].num >= 6 * bucket.metrics["people_count_max"].den

\* C27: evaluating a closed bucket gives exactly one queue_long alert that
\* carries the bucket start and the peak count when people_count_max is at
\* least 6, and no alert when it is below 6 or absent; two evaluations of the
\* same bucket give the same result, whatever was evaluated in between.
C27_QueueLongThreshold ==
    /\ [](ruleCall.made =>
            IF PeakAtLeastSix(ruleCall.bucket)
            THEN /\ Len(ruleCall.events) = 1
                 /\ ruleCall.events[1].event_type = "queue_long"
                 /\ ruleCall.events[1].metadata.ts_bucket = ruleCall.bucket.ts_bucket
                 /\ ruleCall.events[1].metadata.people_max
                        = ruleCall.bucket.metrics["people_count_max"]
            ELSE ruleCall.events = << >>)
    /\ [][(ruleCall.made /\ ruleCall'.made /\ ruleCall'.bucket = ruleCall.bucket)
            => ruleCall'.events = ruleCall.events]_vars

\* a bucket whose peak is exactly six was evaluated and gave one alert
C27_Witness ==
    /\ ruleCall.made
    /\ "people_count_max" \in DOMAIN ruleCall.bucket.metrics
    /\ ruleCall.bucket.metrics["people_count_max"] = Ratio(6, 1)
    /\ ruleCall.bucket.count = 2
    /\ Len(ruleCall.events) = 1

-----------------------------------------------------------------------------
(* Claim C28: the contents of a closed bucket                               *)

\* the number a field value counts as: a boolean is 0 or 1
FieldNumber(v) == IF v.t = "bool" THEN (IF v = BoolV(TRUE) THEN 1 ELSE 0) ELSE v.n

\* the numeric field names seen in a sequence of samples
NumericNames(samples) ==
    UNION { {k \in DOMAIN samples[i] : samples[i][k].t \in {"int", "bool"}}
            : i \in 1..Len(samples) }

\* the numbers field k takes in the samples that carry it as a number
NumbersOf(samples, k) ==
    { <<i, FieldNumber(samples[i][k])>> :
        i \in {j \in 1..Len(samples) : k \in DOMAIN samples[j]
                                       /\ samples[j][k].t \in {"int", "bool"}} }

RECURSIVE SumOfPairs(_)
SumOfPairs(ps) ==
    IF ps = {} THEN 0
    ELSE LET p == CHOOSE q \in ps : TRUE IN p[2] + SumOfPairs(ps \ {p})

MaxOfPairs(ps) == CHOOSE x \in {p[2] : p \in ps} : \A p \in ps : p[2] <= x

\* C28: the bucket try_close_bucket returns holds the sample count of the open
\* bucket and, for every numeric field name seen in its samples, name_avg =
\* the field's sum over the samples / the sample count and name_max = the
\* field's largest value, booleans counting as 0 or 1; a field that is not a
\* number gets no key, and the sample carrying it is still counted.
C28_ClosedBucketContents ==
    [][(aggCall'.op = "close" /\ nCalls' = nCalls + 1 /\ closed' # NoResult)
        => LET samples == gsamples[aggCall'.cam]
               names   == NumericNames(samples)
           IN  /\ closed'.count = Len(samples)
               /\ DOMAIN closed'.metrics
                    = {k \o "_avg" : k \in names} \cup {k \o "_max" : k \in names}
               /\ \A k \in names :
                    /\ closed'.metrics[k \o "_avg"]
                         = Ratio(SumOfPairs(NumbersOf(samples, k)), Len(samples))
                    /\ closed'.metrics[k \o "_max"]
                         = Ratio(MaxOfPairs(NumbersOf(samples, k)), 1)]_vars

\* a bucket of two samples was closed: one carried a text, both a boolean,
\* one a second count
C28_Witness ==
    /\ aggCall.op = "close"
    /\ closed # NoResult
    /\ closed.count = 2
    /\ "queue_avg" \in DOMAIN closed.metrics
    /\ "staff_avg" \in DOMAIN closed.metrics
    /\ closed.metrics["staff_avg"] = Ratio(1, 2)
    /\ "label_avg" \notin DOMAIN closed.metrics

-----------------------------------------------------------------------------
(* Claim C29: detections without a usable box                               *)

\* what update_metrics gives on the last frame once the detections without a
\* usable box are taken out of it
WithoutBoxless(roi, st, dets, ts) == UpdateMetrics(roi, st, SelectSeq(dets, UsableBox), ts)

\* C29 as claimed: a detection without a usable 4-value box contributes to no
\* field of the frame's snapshot and changes no classifier state, the other
\* detections of the frame being processed exactly as if it were absent.
C29_BoxlessIgnored ==
    [][framePhase' = "done"
        => LET r == WithoutBoxless(selfRoi, roiState, frameDets', frameTs')
           IN  /\ snapshot' = r.metrics
               /\ roiState' = r.state]_vars

\* C29, amended: a detection without a usable 4-value box contributes to no
\* field of the frame's snapshot other than people_count, which counts every
\* detection of the frame, and changes no classifier state; the other
\* detections of the frame are processed exactly as if it were absent.
C29_BoxlessOnlyCounted ==
    [][framePhase' = "done"
        => LET r == WithoutBoxless(selfRoi, roiState, frameDets', frameTs')
           IN  /\ snapshot' = [r.metrics EXCEPT !.people_count = Len(frameDets')]
               /\ roiState' = r.state]_vars

\* a counter camera classified a frame of two detections with a box and two
\* without
C29_Witness ==
    /\ framePhase = "done"
    /\ frameRole = "balcao"
    /\ \E i \in 1..Len(frameDets) : ~UsableBox(frameDets[i])
    /\ snapshot.pay_count = 1
    /\ snapshot.staff_count = 1
    /\ snapshot.people_count = 4

-----------------------------------------------------------------------------
(* Claim C30: the role of a camera                                          *)

\* the role as the claim selects it
ClaimedRole(roi) ==
    IF roi.role = "balcao" \/ roi.role = "salao" \/ roi.role = "entrada" THEN roi.role
    ELSE IF {"ponto_pagamento", "area_atendimento_fila", "zona_funcionario_caixa"}
              \cap DOMAIN roi.zones # {} THEN "balcao"
    ELSE IF "area_consumo" \in DOMAIN roi.zones THEN "salao"
    ELSE IF \E ln \in DOMAIN roi.lines : Len(roi.lines[ln]) = 2 THEN "entrada"
    ELSE "unknown"

\* C30: an explicit role of balcao, salao or entrada is used as given;
\* otherwise the role is balcao if a payment, queue or staff zone key is
\* present, else salao if the consumption zone key is present, else entrada if
\* a two-point line exists, else unknown.  For role unknown, a missing ROI
\* file included, every snapshot field except people_count is 0 and the
\* checkout and track state are left unchanged.
C30_RoleSelection ==
    /\ [](framePhase = "done" => frameRole = ClaimedRole(selfRoi))
    /\ [][(framePhase' = "done" /\ ClaimedRole(selfRoi) = "unknown")
            => /\ \A k \in DOMAIN snapshot' \ {"people_count"} : snapshot'[k] = 0
               /\ roiState' = roiState]_vars

\* a camera without ROI file saw two people with a box
C30_Witness ==
    /\ framePhase = "done"
    /\ selfRoi = EmptyRoi
    /\ frameRole = "unknown"
    /\ frameDets = <<DetPayOnly, DetStaff>>
    /\ snapshot.people_count = 2

-----------------------------------------------------------------------------
(* Claim C31: the cooldown of each kind of line event                       *)

\* the last-fired time stored for track 1 and an event of the line
StoredLast(st, kind) ==
    IF 1 \in DOMAIN st.track_line_last_event
    THEN GetOr(st.track_line_last_event[1], <<kind, "linha_entrada_saida">>, LongAgo)
    ELSE LongAgo

\* C31: for the track and the line, a frame reports an entry only when the
\* last reported entry lies at least the cooldown back, and likewise for
\* exits; a candidate transition closer than that to the last fired event of
\* its kind is suppressed and leaves the stored last-fired time as it was,
\* which is the time of the last frame that reported such an event.
C31_CooldownPerEventType ==
    /\ [][framePhase' = "done"
            => /\ snapshot'.entries >= 1
                    => frameTs' - lineHist.entryRecTs >= LineCooldown(selfRoi)
               /\ snapshot'.exits >= 1
                    => frameTs' - lineHist.exitRecTs >= LineCooldown(selfRoi)
               /\ (lineHist'.cand = "entry" /\ lineHist'.ts = frameTs'
                   /\ frameTs' - lineHist.entryRecTs < LineCooldown(selfRoi))
                    => /\ snapshot'.entries = 0
                       /\ StoredLast(roiState', "entry") = StoredLast(roiState, "entry")
               /\ (lineHist'.cand = "exit" /\ lineHist'.ts = frameTs'
                   /\ frameTs' - lineHist.exitRecTs < LineCooldown(selfRoi))
                    => /\ snapshot'.exits = 0
                       /\ StoredLast(roiState', "exit") = StoredLast(roiState, "exit")]_vars
    /\ [](/\ StoredLast(roiState, "entry") = lineHist.entryRecTs
          /\ StoredLast(roiState, "exit") = lineHist.exitRecTs)

\* an entry transition was suppressed less than the cooldown after a reported entry
C31_Witness ==
    /\ framePhase = "done"
    /\ lineHist.cand = "entry"
    /\ lineHist.ts = frameTs
    /\ snapshot.entries = 0
    /\ lineHist.entryRecTs > LongAgo
    /\ frameTs - lineHist.entryRecTs < LineCooldown(selfRoi)

-----------------------------------------------------------------------------
(* Claims C32 and C33: the failsafe window and the dwell of the checkout    *)

\* C32: a frame reports checkout_events = 1 only when the last frame that
\* reported one lies at least the failsafe window back, and after a frame that
\* lies inside the failsafe window of a confirmed cycle no accumulation start
\* is stored.
C32_FailsafeSpacing ==
    [][framePhase' = "done"
        => /\ snapshot'.checkout_events = 1
                => frameTs' - ckRun.lastEv >= CheckoutFailsafe(selfRoi)
           /\ (ckRun.lastEv > LongAgo /\ frameTs' - ckRun.lastEv < CheckoutFailsafe(selfRoi))
                => roiState'.interaction_start_ts = NoStart]_vars

\* a second checkout was reported, with a window of 5 ticks configured
C32_Witness ==
    /\ framePhase = "done"
    /\ snapshot.checkout_events = 1
    /\ ckRun.prevEv > LongAgo
    /\ CheckoutFailsafe(selfRoi) = 5

\* C33: a frame reports checkout_events = 1 only within a run of consecutive
\* frames with interaction that began at least the dwell before it, and a
\* frame without interaction leaves no accumulation start stored.
C33_DwellWithoutGap ==
    [][framePhase' = "done"
        => /\ snapshot'.checkout_events = 1
                => /\ ckRun'.inRun
                   /\ frameTs' - ckRun'.start >= CheckoutDwell(selfRoi)
           /\ ~ckRun'.inRun => roiState'.interaction_start_ts = NoStart]_vars

\* a checkout was reported in a run that began after the first frames, its
\* dwell of 5 ticks longer than the failsafe window
C33_Witness ==
    /\ framePhase = "done"
    /\ snapshot.checkout_events = 1
    /\ ckRun.inRun
    /\ ckRun.start >= 3
    /\ CheckoutDwell(selfRoi) = 5

-----------------------------------------------------------------------------
(* Claim C34: the side stored for a track                                   *)

\* track 1 is among the detections of the last frame
TrackSeen(dets) == \E i \in 1..Len(dets) : dets[i].track_id = 1

\* the side stored for track 1 and the line
StoredSide(st) == st.track_line_side_state[1]["linha_entrada_saida"]

\* C34: after a frame that holds the track, the side stored for it is the
\* side of that frame, whether an event fired, was suppressed or was not due;
\* an entry is reported only on a step from the negative to the positive side
\* of the observation before, an exit only on the opposite step, and a step to
\* or from the line itself reports nothing: sides -1, 0, +1 give no entry.
C34_SideAlwaysStored ==
    /\ []((framePhase = "done" /\ lineHist.sg # 2)
            => Sign(StoredSide(roiState)) = lineHist.sg)
    /\ [][framePhase' = "done"
            => /\ snapshot'.entries >= 1
                    => (TrackSeen(frameDets') /\ lineHist.sg = -1 /\ lineHist'.sg = 1)
               /\ snapshot'.exits >= 1
                    => (TrackSeen(frameDets') /\ lineHist.sg = 1 /\ lineHist'.sg = -1)
               /\ (TrackSeen(frameDets') /\ (lineHist.sg = 0 \/ lineHist'.sg = 0))
                    => (snapshot'.entries = 0 /\ snapshot'.exits = 0)]_vars

\* the track went from the negative side onto the line and on to the positive
\* side: no entry
C34_Witness ==
    /\ framePhase = "done"
    /\ TrackSeen(frameDets)
    /\ lineHist.viaLine = "-0+"
    /\ lineHist.sg = 1
    /\ snapshot.entries = 0
    /\ StoredSide(roiState) > 0

-----------------------------------------------------------------------------
(* Claim C35: flush_outbox settles the records of a batch one by one        *)

\* the ids of the records due at `now`
DueIds(ob, now) == {ob[i].id : i \in {j \in 1..Len(ob) : ob[j].next_attempt_at <= now}}

\* the `limit` smallest of a set of ids
Smallest(ids, limit) == {x \in ids : Cardinality({y \in ids : y < x}) < limit}

\* the record of an id, in an outbox that holds it
RecordOf(ob, id) == ob[CHOOSE i \in 1..Len(ob) : ob[i].id = id]
Holds(ob, id) == \E i \in 1..Len(ob) : ob[i].id = id

\* C35: the records flush_outbox attempts are the due ones, in ascending id,
\* at most batch_size of them; each is deleted when its POST succeeded and
\* otherwise kept with one attempt more and next_attempt_at = now + backoff,
\* whatever happened to the records before it in the batch; every other
\* record is left as it was.
C35_BatchSettledOneByOne ==
    [][obCall'.op = "flush"
        => LET attempted == Smallest(DueIds(outbox, ObNow), obCall'.limit)
               rows  == obCall'.rows
               oks   == obCall'.oks
           IN  /\ {rows[i] : i \in 1..Len(rows)} = attempted
               /\ \A i, j \in 1..Len(rows) : i < j => rows[i] < rows[j]
               /\ \A i \in 1..Len(rows) :
                    IF oks[i] THEN ~Holds(outbox', rows[i])
                    ELSE /\ Holds(outbox', rows[i])
                         /\ LET old == RecordOf(outbox, rows[i])
                                new == RecordOf(outbox', rows[i])
                                n   == old.attempts + 1
                            IN  /\ new.attempts = n
                                /\ new.next_attempt_at
                                     = ObNow + (IF 2 ^ (IF n < 8 THEN n ELSE 8) < 300
                                                THEN 2 ^ (IF n < 8 THEN n ELSE 8) ELSE 300)
                                /\ new.payload_json = old.payload_json
                                /\ new.receipt_id = old.receipt_id
               /\ \A k \in 1..Len(outbox) :
                    outbox[k].id \notin attempted
                        => (Holds(outbox', outbox[k].id)
                            /\ RecordOf(outbox', outbox[k].id) = outbox[k])
               /\ \A k \in 1..Len(outbox') : Holds(outbox, outbox'[k].id)]_vars

\* a batch of two: the first POST failed for the second time, the second succeeded
C35_Witness ==
    /\ obCall.op = "flush"
    /\ obCall.oks = <<FALSE, TRUE>>
    /\ Len(outbox) = 1
    /\ outbox[1].attempts = 2
    /\ outbox[1].next_attempt_at = ObNow + 4

-----------------------------------------------------------------------------
(* Claim C36: the order of the retries of run_agent                         *)

\* C36: a row leaves the durable queue only while no row of a smaller id, so
\* none enqueued before it, is stored; and a flush POST that fails ends the
\* pass: the rest of the batch is dropped and the sender goes back to the
\* pending queue.
C36_OrderedRetry ==
    [][/\ \A i \in 1..Len(store) :
            ~Holds(store', store[i].id)
                => \A j \in 1..Len(store) : store[j].id >= store[i].id
       /\ (senderPc = "flush" /\ pending' = pending /\ store' = store)
            => (batch' = << >> /\ senderPc' = "get")]_vars

\* a row was delivered by a flush and deleted while a row enqueued after it
\* is still stored
C36_Witness ==
    /\ flushedOk # {}
    /\ store # << >>
    /\ store[1].id >= 2
    /\ failedFlushes # {}

-----------------------------------------------------------------------------------------------------------------------------------------------------
(* Claim C37: the durable store's lock                                       *)

\* the threads that are between `with self._lock` and the end of its block
InsideDb == {t \in Threads : lockSt.pc[t] \in {"execute", "commit", "release"}}

\* C37: every statement and its commit run under the store's one lock: no
\* two operations are in their database access at the same time, a statement
\* is executed on a connection that holds nothing uncommitted, what a commit
\* writes is the one statement of the operation that commits, and outside
\* the operations the file holds what the connection sees.
C37_StoreMutualExclusion ==
    /\ Cardinality(InsideDb) <= 1
    /\ \A t \in InsideDb : lockSt.holder = t
    /\ \A t \in Threads :
         /\ lockSt.pc[t] = "execute" => lockSt.pending = << >>
         /\ lockSt.pc[t] = "commit" =>
                lockSt.pending = << [by |-> t, stmt |-> lockSt.stmt[t]] >>
    /\ InsideDb = {} => (lockSt.conn = lockSt.db /\ lockSt.pending = << >>)

\* the enqueuer waits at the lock with a second envelope while the flusher,
\* inside, has executed mark_failed for the first and is about to commit it
C37_Witness ==
    /\ lockSt.pc["enqueuer"] = "acquire"
    /\ lockSt.pc["flusher"] = "commit"
    /\ lockSt.stmt["flusher"].name = "mark_failed"
    /\ lockSt.holder = "flusher"
    /\ Len(lockSt.db) = 1 /\ lockSt.db[1].attempts = 0
    /\ lockSt.conn[1].attempts = 1

-----------------------------------------------------------------------------
(* Claim C38: the loops and the stop signal                                  *)

\* C38: once stop_event is set, the sender loop starts at most one receive
\* from the pending queue, one immediate send and one flush pass, the
\* heartbeat loop at most one round of puts, and neither enters its loop
\* again; a loop that has seen the signal at its top does nothing more, so
\* that the rows still in the durable queue stay there; and both loops come
\* to their end.
C38_LoopCancellation ==
    /\ [](/\ loopSt.after.gets <= 1
          /\ loopSt.after.sends <= 1
          /\ loopSt.after.passes <= 1
          /\ loopSt.after.puts <= 1
          /\ loopSt.after.turns = 0)
    /\ [][ \A t \in LoopThreads :
             loopSt.pc[t] \in LoopOver =>
                /\ loopSt'.pc[t] = loopSt.pc[t]
                /\ t = "sender" => /\ loopSt'.after.sends = loopSt.after.sends
                                   /\ loopSt'.after.rows = loopSt.after.rows
                                   /\ loopSt'.storeN = loopSt.storeN ]_vars
    /\ (loopSt.stop ~> \A t \in LoopThreads : loopSt.pc[t] \in LoopOver)

\* the signal was set while the sender was about to receive: it has received
\* and sent an envelope, made a flush pass that a failure has broken off, and
\* seen the signal at its top; the heartbeat loop has put one more round and
\* stopped as well; a row is left in the durable queue
C38_Witness ==
    /\ loopSt.stop
    /\ \A t \in LoopThreads : loopSt.pc[t] = "done"
    /\ loopSt.after.gets = 1 /\ loopSt.after.sends = 1 /\ loopSt.after.passes = 1
    /\ loopSt.after.rows = 2
    /\ loopSt.after.puts = 1
    /\ loopSt.storeN = 1

-----------------------------------------------------------------------------
(* Claim C39: the frame hand-off                                             *)

\* C39 as stated: no frame is returned twice, and the timestamps of the
\* frames returned are strictly increasing.
C39_FrameHandoff ==
    \A i, j \in 1..Len(handoff.returned) :
       i < j => /\ handoff.returned[i].id # handoff.returned[j].id
                /\ handoff.returned[i].ts < handoff.returned[j].ts

\* C39, amended: under every interleaving of the worker's write and
\* try_get_frame's read and clear, the frames returned are returned in the
\* order of their capture and none twice, and their timestamps never
\* decrease; they increase strictly when the fps limit is on.
C39_FramesOnceInOrder ==
    \A i, j \in 1..Len(handoff.returned) :
       i < j => /\ handoff.returned[i].id < handoff.returned[j].id
                /\ handoff.returned[i].ts <= handoff.returned[j].ts
                /\ handoff.fps_period > 0 =>
                      handoff.returned[i].ts + handoff.fps_period <= handoff.returned[j].ts

\* the worker wrote the second frame between try_get_frame's read and its
\* clear, so that the second frame was never returned; the first and the
\* third were, in this order
C39_Witness ==
    /\ handoff.fps_period > 0
    /\ Len(handoff.returned) = 2
    /\ handoff.returned[1].id = 1 /\ handoff.returned[2].id = 3
    /\ handoff.dropped = {2}

-----------------------------------------------------------------------------
(* Claim C40: what a closed bucket summarises                                *)

\* C40: every bucket try_close_bucket returns summarises at least one
\* sample: its count is at least 1, and its metrics are not empty when its
\* samples carried numeric fields.
C40_ClosedBucketHasSamples ==
    [][(aggCall'.op = "close" /\ nCalls' = nCalls + 1 /\ closed' # NoResult)
        => /\ closed'.count >= 1
           /\ NumericNames(gsamples[aggCall'.cam]) # {} => DOMAIN closed'.metrics # {}]_vars

-----
(* Claims C3 and C4: the aggregator's window roll-over                      *)

RECURSIVE SeqSum(_, _)
SeqSum(vals, k) ==
    IF vals = <<>> THEN 0 ELSE vals[1][k].n + SeqSum(Tail(vals), k)

SeqMax(vals, k) ==
    CHOOSE x \in {vals[i][k].n : i \in 1..Len(vals)} :
        \A i \in 1..Len(vals) : vals[i][k].n <= x

\* the closed bucket that summarises the samples w.vals of window w.start
SummaryOf(w) ==
    [ ts_bucket |-> w.start,
      count     |-> Len(w.vals),
      metrics   |-> [ people_count_avg |-> Ratio(SeqSum(w.vals, "people_count"), Len(w.vals)),
                      people_count_max |-> Ratio(SeqMax(w.vals, "people_count"), 1) ] ]

\* a try_close_bucket probe that directly follows, for the same camera and
\* timestamp, an add_sample that moved on to a later window
ProbeAfterRollOver ==
    /\ aggCall.op = "close"
    /\ aggPrev.op = "add"
    /\ aggPrev.rolled
    /\ aggPrev.cam = aggCall.cam
    /\ aggPrev.ts = aggCall.ts

\* C3: when add_sample has accumulated samples in window W and is then called
\* with a timestamp of a later window, a try_close_bucket probe at that
\* timestamp returns the closed bucket of W (its sample count, the mean and the
\* maximum of its samples), and the later window's bucket stays open.
C3_RollOverProbeReturnsWindow ==
    ProbeAfterRollOver =>
        /\ closed = SummaryOf(gprev[aggCall.cam])
        /\ buckets[aggCall.cam].ts_bucket = BucketStart(aggCall.ts)

\* C4: in the main loop, whenever a camera's frame falls in a later window
\* than the camera's open bucket, an edge_metric_bucket envelope that
\* summarises the earlier window is put on the pending queue.
C4_RollOverPutsBucketEnvelope ==
    \A cam \in Cameras : \A w \in mlRolled[cam] :
        \E i \in 1..Len(mlPending) :
            /\ mlPending[i].event_name = StrV("edge_metric_bucket")
            /\ mlPending[i].data.camera_id = StrV(cam)
            /\ mlPending[i].data.ts_bucket = IntV(w)

\* C20: try_close_bucket closes and returns the camera's open bucket only
\* when the probe timestamp lies in a window later than the open bucket's;
\* with the same window, an earlier window or no open bucket it returns
\* nothing and leaves the open bucket as it is.
C20_CloseOnlyOnLaterWindow ==
    [][ (aggCall'.op = "close" /\ nCalls' # nCalls) =>
          LET b == buckets[aggCall'.cam] IN
          IF b # NoBucket /\ BucketStart(aggCall'.ts) > b.ts_bucket
          THEN closed' = ClosedDict(b)
          ELSE closed' = NoResult /\ buckets' = buckets ]_vars

\* C21: for every bucket closed in the main loop (a camera's frame leaves the
\* window of its open bucket) the edge_metric_bucket envelope is put on the
\* pending queue first, then one alert envelope for each alert the rule
\* engine returns for the bucket, and the loop goes on with later frames.
C21_BucketThenAlerts ==
    [][ \A cam \in Cameras :
          ( /\ mlClock'[cam] # mlClock[cam]
            /\ buckets[cam] # NoBucket
            /\ BucketStart(mlClock'[cam]) > buckets[cam].ts_bucket )
          => LET b == ClosedDict(buckets[cam])
                 n == Len(RuleEvaluate(b))
                 k == Len(mlPending)
             IN  /\ Len(mlPending') = k + 1 + n
                 /\ mlPending'[k + 1].event_name = StrV("edge_metric_bucket")
                 /\ mlPending'[k + 1].data.camera_id = StrV(cam)
                 /\ mlPending'[k + 1].data.ts_bucket = IntV(b.ts_bucket)
                 /\ \A i \in 1..n :
                        /\ mlPending'[k + 1 + i].event_name = StrV("alert")
                        /\ mlPending'[k + 1 + i].data.camera_id = StrV(cam)
                 /\ ~mlCrashed' ]_vars

-----------------------------------------------------------------------------
(* Claims C5 and C6: the checkout cycle                                     *)

\* C5: over a run of consecutive frames with interaction_now true at most one
\* frame reports checkout_events = 1; a run that starts with the machine idle,
\* with frames every 0.1 s, has reported exactly one once it spans 2.5 s.
C5_OneCheckoutPerInteraction ==
    /\ ckRun.ev <= 1
    /\ (ckRun.inRun /\ ckRun.idle /\ ckRun.uniform /\ frameTs - ckRun.start >= 25)
          => ckRun.ev = 1

\* a run of 0.1 s frames from an idle machine, 2.5 s long, with its one event
\* reported on an earlier frame than the last
C5_Witness ==
    /\ ckRun.inRun /\ ckRun.idle /\ ckRun.uniform
    /\ frameTs - ckRun.start >= 25
    /\ ckRun.ev = 1
    /\ snapshot.checkout_events = 0
    /\ roiState.in_checkout_cycle

\* C6: a frame with interaction_now false leaves the machine idle (it rearms
\* the machine when it was in a cycle).
C6_GapRearms ==
    (framePhase = "done" /\ ~ckRun.inRun) => ~roiState.in_checkout_cycle

-----------------------------------------------------------------------------
(* Claims C7 and C8: line crossing                                          *)

\* C7 as stated: when an entry transition and the exit transition that follows
\* it are less than the cooldown apart, only the entry is recorded.
C7_OnlyFirstRecorded ==
    (lineHist.pair.valid /\ lineHist.pair.dt < LineCooldown(selfRoi) /\ lineHist.pair.entryRec)
        => ~lineHist.pair.exitRec

\* C7 amended: when a recorded entry transition and the exit transition that
\* follows it are less than the cooldown apart, the exit is recorded as well,
\* unless an exit of that track and line was recorded less than the cooldown
\* before it: the cooldown separates events of the same type only.
C7_BothRecorded ==
    (lineHist.pair.valid /\ lineHist.pair.dt < LineCooldown(selfRoi) /\ lineHist.pair.entryRec)
        => (lineHist.pair.exitRec <=> ~lineHist.pair.exitRecent)

\* an entry and an exit less than the cooldown apart, both recorded
C7_Witness ==
    /\ lineHist.pair.valid
    /\ lineHist.pair.dt < LineCooldown(selfRoi)
    /\ lineHist.pair.entryRec
    /\ lineHist.pair.exitRec
    /\ snapshot.exits = 1

\* C8: a track seen on sides -1, -1, +1, +1, -1, each frame at least the
\* cooldown after the one before, is reported as one entry, on the frame of
\* the -1 to +1 step, and one exit, on the frame of the +1 to -1 step.
C8_OneEntryOneExit ==
    lineHist.k = 5 =>
        /\ lineHist.eSum = 1 /\ lineHist.eAt = 1
        /\ lineHist.xSum = 1 /\ lineHist.xAt = 1

\* the five observations have been made, the last reporting the exit
C8_Witness ==
    /\ lineHist.k = 5
    /\ lineHist.sg = -1
    /\ frameTs = lineHist.ts
    /\ snapshot.exits = 1

-----------------------------------------------------------------------------
(* Claim C9: payment over queue                                             *)

\* where a detection stands, read off the zone rectangles of BalcaoRoi
CentreInPayment(det) ==
    /\ 0 <= det.xyxy[1] + det.xyxy[3] /\ det.xyxy[1] + det.xyxy[3] <= 20
    /\ 0 <= det.xyxy[2] + det.xyxy[4] /\ det.xyxy[2] + det.xyxy[4] <= 20
FootInQueue(det) ==
    /\ 0 <= det.xyxy[1] + det.xyxy[3] /\ det.xyxy[1] + det.xyxy[3] <= 20
    /\ 8 <= det.xyxy[4] /\ det.xyxy[4] <= 20

CountOf(dets, P(_)) == Cardinality({i \in 1..Len(dets) : P(dets[i])})

\* C9: every detection in the payment zone adds 1 to pay_count; a detection in
\* the queue zone adds 1 to queue_count, except that with
\* exclude_pay_from_queue a detection in both zones adds nothing to
\* queue_count.  Five detections in payment only and one in both give
\* pay_count = 6 and queue_count = 0.
C9_PaymentOverQueue ==
    framePhase = "done" =>
        LET exclude   == ExcludePayFromQueue(selfRoi)
            Queued(d) == FootInQueue(d) /\ ~(exclude /\ CentreInPayment(d))
            PayOnly(d) == d = DetPayOnly
            Both(d)    == d = DetPayQueue
        IN  /\ snapshot.pay_count = CountOf(frameDets, CentreInPayment)
            /\ snapshot.queue_count = CountOf(frameDets, Queued)
            /\ (exclude /\ Len(frameDets) = 6 /\ CountOf(frameDets, PayOnly) = 5
                  /\ CountOf(frameDets, Both) = 1)
                 => (snapshot.pay_count = 6 /\ snapshot.queue_count = 0)

\* the frame of five detections in payment and one in both zones, classified
C9_Witness ==
    /\ framePhase = "done"
    /\ ExcludePayFromQueue(selfRoi)
    /\ Len(frameDets) = 6
    /\ Cardinality({i \in 1..6 : frameDets[i] = DetPayOnly}) = 5
    /\ Cardinality({i \in 1..6 : frameDets[i] = DetPayQueue}) = 1
    /\ snapshot.pay_count = 6
    /\ snapshot.queue_count = 0

-----------------------------------------------------------------------------
(* Claim C10: the receipt id                                                *)

IdentityTuple(env) ==
    << env.event_name, Get(env.data, "store_id"), Get(env.data, "camera_id"),
       env.ts, env.event_version >>

\* C10: two envelopes get the same receipt id exactly when they agree on
\* (event_name, data.store_id, data.camera_id, ts, event_version), whatever
\* their other fields are.
C10_ReceiptIdIsIdentity ==
    (ridDone /\ "receipt_id" \in DOMAIN envA /\ "receipt_id" \in DOMAIN envB) =>
        (IdentityTuple(envA) = IdentityTuple(envB) <=> envA.receipt_id = envB.receipt_id)

\* two envelopes of the same identity with different data and source
C10_Witness ==
    /\ ridDone
    /\ "receipt_id" \in DOMAIN envA /\ "receipt_id" \in DOMAIN envB
    /\ IdentityTuple(envA) = IdentityTuple(envB)
    /\ Get(envA.data, "extra") # Get(envB.data, "extra")
    /\ envA.source # envB.source
    /\ envA.receipt_id = envB.receipt_id

====
